---- MODULE Spec2Model ----
(***************************************************************************)
(* The mixing engine of vgmstream (src/src/mixing.c): the command chain,   *)
(* its builder/validator, the macros, activation and the per-sample        *)
(* execution loop.                                                         *)
(*                                                                         *)
(* Encodings.  A C float is a fixed-point integer in units of 1/VolOne, so *)
(* 1.0f is VolOne: the stored volumes and the working-buffer values.  A C  *)
(* double is a fixed-point integer in the finer unit 1/DblOne, so 1.0 is   *)
(* DblOne: the volume arguments of the constructors and macros.  Storing a *)
(* double in a float field rounds it to the nearest float (ToFloat).  Shape*)
(* codes (C char) are one-character strings.  A channel mask (uint32_t) is *)
(* a natural number read bit by bit.  C arrays are 1-based sequences here: *)
(* C index i is element i+1.                                               *)
(***************************************************************************)
EXTENDS Integers, Sequences, FiniteSets, TLC

(***************************************************************************)
(* Program constants and the bounds of the model.                          *)
(***************************************************************************)
VGMSTREAM_MAX_MIXING == 128

\* The hardware channel ceiling.  Its header is not part of src/, so the
\* value is a bound of the model, chosen small enough to be reached and
\* large enough for a stream of MaxStreamChannels channels to be layered
\* down to two lanes (the macro works on channels + max lanes).
VGMSTREAM_MAX_CHANNELS == 5

\* The most channels a stream has when it is opened.
MaxStreamChannels == 3

\* The longest chain the environment builds command by command in Spec.
MaxChain == 1

\* The number of free slots left when SpecCap starts to call everything.
CapSlack == 1

VolOne == 1000

Half == VolOne \div 2

\* How many doubles lie between two neighbouring floats, plus one.
DblPerFloat == 4

DblOne == VolOne * DblPerFloat

DblHalf == DblOne \div 2

\* "mix.vol = volume": a double stored in a float field, rounded to nearest
ToFloat(volume) ==
    IF volume >= 0
    THEN (2 * volume + DblPerFloat) \div (2 * DblPerFloat)
    ELSE -((2 * (-volume) + DblPerFloat) \div (2 * DblPerFloat))

INT_MAX == 2147483647

NULL == [null |-> TRUE]

\* The process stopped by a hardware trap (integer division by zero).
FAULT == [fault |-> TRUE]

Max(a, b) == IF a >= b THEN a ELSE b

\* ~0 for a uint32_t: every bit set (written as the two's complement -1)
ALL_ONES == -1

\* (mask >> ch) & 1, for ch below the 32 bits of the mask
Bit(mask, ch) == IF mask = ALL_ONES THEN 1 ELSE (mask \div (2 ^ ch)) % 2

ISqrt(x) == CHOOSE r \in 0..DblOne : r * r <= x /\ (r + 1) * (r + 1) > x

\* 1 / sqrt(n), a double
InvSqrt[n \in 1..8] == ISqrt((DblOne * DblOne) \div n)

(***************************************************************************)
(* mix_command_data, zero-initialised ("mix = {0}") with the command set.  *)
(***************************************************************************)
ZeroMix(cmd) ==
    [command |-> cmd, ch_dst |-> 0, ch_src |-> 0, vol |-> 0,
     vol_start |-> 0, vol_end |-> 0, shape |-> "",
     time_pre |-> 0, time_start |-> 0, time_end |-> 0, time_post |-> 0]

(***************************************************************************)
(* mixing_init: the state after calloc and the three assignments.          *)
(***************************************************************************)
mixing_init(channels) ==
    [mixing_channels |-> channels,
     output_channels |-> channels,
     mixing_on       |-> FALSE,
     mixing_count    |-> 0,
     mixing_size     |-> VGMSTREAM_MAX_MIXING,
     mixing_chain    |-> << >>,
     mixbuf          |-> << >>]

mixing_update_channel(d) ==
    IF d = NULL THEN d
    ELSE [d EXCEPT !.mixing_channels = @ + 1, !.output_channels = @ + 1]

(***************************************************************************)
(* add_mixing: the activation lock, the capacity check, the append.        *)
(* Returns the value returned (ok) and the state left behind (data).       *)
(***************************************************************************)
add_mixing_nolock(d, mix) ==
    IF d = NULL THEN [ok |-> FALSE, data |-> d]
    ELSE IF d.mixing_count + 1 > d.mixing_size THEN [ok |-> FALSE, data |-> d]
    ELSE [ok   |-> TRUE,
          data |-> [d EXCEPT !.mixing_chain = Append(SubSeq(@, 1, d.mixing_count), mix),
                             !.mixing_count = @ + 1]]

add_mixing(d, mix) ==
    IF d = NULL THEN [ok |-> FALSE, data |-> d]
    ELSE IF d.mixing_on THEN [ok |-> FALSE, data |-> d]
    ELSE IF d.mixing_count + 1 > d.mixing_size THEN [ok |-> FALSE, data |-> d]
    ELSE [ok   |-> TRUE,
          data |-> [d EXCEPT !.mixing_chain = Append(SubSeq(@, 1, d.mixing_count), mix),
                             !.mixing_count = @ + 1]]

(***************************************************************************)
(* The primitive constructors.                                             *)
(***************************************************************************)
mixing_push_swap(d, ch_dst, ch_src) ==
    IF ch_dst < 0 \/ ch_src < 0 \/ ch_dst = ch_src THEN d
    ELSE IF d = NULL THEN d
    ELSE IF ch_dst >= d.output_channels \/ ch_src >= d.output_channels THEN d
    ELSE add_mixing(d, [ZeroMix("MIX_SWAP") EXCEPT !.ch_dst = ch_dst, !.ch_src = ch_src]).data

mixing_push_add(d, ch_dst, ch_src, volume) ==
    IF d = NULL THEN d
    ELSE IF volume = 0 THEN d
    ELSE IF ch_dst < 0 \/ ch_src < 0 THEN d
    ELSE IF ch_dst >= d.output_channels \/ ch_src >= d.output_channels THEN d
    ELSE add_mixing(d, [ZeroMix("MIX_ADD") EXCEPT !.ch_dst = ch_dst, !.ch_src = ch_src,
                                                  !.vol = ToFloat(volume)]).data

mixing_push_volume(d, ch_dst, volume) ==
    IF volume = DblOne THEN d
    ELSE IF d = NULL THEN d
    ELSE IF ch_dst >= d.output_channels THEN d
    ELSE add_mixing(d, [ZeroMix("MIX_VOLUME") EXCEPT !.ch_dst = ch_dst,
                                                     !.vol = ToFloat(volume)]).data

mixing_push_limit(d, ch_dst, volume) ==
    IF volume < 0 THEN d
    ELSE IF volume = DblOne THEN d
    ELSE IF d = NULL THEN d
    ELSE IF ch_dst >= d.output_channels THEN d
    ELSE add_mixing(d, [ZeroMix("MIX_LIMIT") EXCEPT !.ch_dst = ch_dst,
                                                    !.vol = ToFloat(volume)]).data

mixing_push_upmix_nopeak(d, ch_dst) ==
    IF ch_dst < 0 THEN d
    ELSE IF d = NULL THEN d
    ELSE IF ch_dst > d.output_channels
            \/ d.output_channels + 1 > VGMSTREAM_MAX_CHANNELS THEN d
    ELSE LET r == add_mixing(d, [ZeroMix("MIX_UPMIX") EXCEPT !.ch_dst = ch_dst])
         IN  IF r.ok
             THEN [r.data EXCEPT !.output_channels = @ + 1]
             ELSE r.data

mixing_push_upmix_unchecked(d, ch_dst) ==
    IF ch_dst < 0 THEN d
    ELSE IF d = NULL THEN d
    ELSE IF ch_dst > d.output_channels THEN d
    ELSE LET r == add_mixing(d, [ZeroMix("MIX_UPMIX") EXCEPT !.ch_dst = ch_dst])
         IN  IF r.ok
             THEN [r.data EXCEPT !.output_channels = @ + 1,
                                 !.mixing_channels = Max(@, r.data.output_channels + 1)]
             ELSE r.data

mixing_push_upmix(d, ch_dst) ==
    IF ch_dst < 0 THEN d
    ELSE IF d = NULL THEN d
    ELSE IF ch_dst > d.output_channels
            \/ d.output_channels + 1 > VGMSTREAM_MAX_CHANNELS THEN d
    ELSE LET r == add_mixing(d, [ZeroMix("MIX_UPMIX") EXCEPT !.ch_dst = ch_dst])
         IN  IF r.ok
             THEN [r.data EXCEPT !.output_channels = @ + 1,
                                 !.mixing_channels = Max(@, r.data.output_channels + 1)]
             ELSE r.data

mixing_push_downmix_keep(d, ch_dst) ==
    IF ch_dst < 0 THEN d
    ELSE IF d = NULL THEN d
    ELSE IF ch_dst >= d.output_channels \/ d.output_channels - 1 < 1 THEN d
    ELSE add_mixing(d, [ZeroMix("MIX_DOWNMIX") EXCEPT !.ch_dst = ch_dst]).data

mixing_push_downmix_last(d, ch_dst) ==
    IF ch_dst < 0 THEN d
    ELSE IF d = NULL THEN d
    ELSE IF ch_dst >= d.output_channels THEN d
    ELSE LET r == add_mixing(d, [ZeroMix("MIX_DOWNMIX") EXCEPT !.ch_dst = ch_dst])
         IN  IF r.ok
             THEN [r.data EXCEPT !.output_channels = @ - 1]
             ELSE r.data

mixing_push_downmix(d, ch_dst) ==
    IF ch_dst < 0 THEN d
    ELSE IF d = NULL THEN d
    ELSE IF ch_dst >= d.output_channels \/ d.output_channels - 1 < 1 THEN d
    ELSE LET r == add_mixing(d, [ZeroMix("MIX_DOWNMIX") EXCEPT !.ch_dst = ch_dst])
         IN  IF r.ok
             THEN [r.data EXCEPT !.output_channels = @ - 1]
             ELSE r.data

mixing_push_killmix_any(d, ch_dst) ==
    IF ch_dst <= 0 THEN d
    ELSE IF d = NULL THEN d
    ELSE LET r == add_mixing(d, [ZeroMix("MIX_KILLMIX") EXCEPT !.ch_dst = ch_dst])
         IN  IF r.ok
             THEN [r.data EXCEPT !.output_channels = ch_dst]
             ELSE r.data

mixing_push_killmix_zero(d, ch_dst) ==
    IF ch_dst < 0 THEN d
    ELSE IF d = NULL THEN d
    ELSE IF ch_dst >= d.output_channels THEN d
    ELSE LET r == add_mixing(d, [ZeroMix("MIX_KILLMIX") EXCEPT !.ch_dst = ch_dst])
         IN  IF r.ok
             THEN [r.data EXCEPT !.output_channels = ch_dst]
             ELSE r.data

mixing_push_killmix(d, ch_dst) ==
    IF ch_dst <= 0 THEN d
    ELSE IF d = NULL THEN d
    ELSE IF ch_dst >= d.output_channels THEN d
    ELSE LET r == add_mixing(d, [ZeroMix("MIX_KILLMIX") EXCEPT !.ch_dst = ch_dst])
         IN  IF r.ok
             THEN [r.data EXCEPT !.output_channels = ch_dst]
             ELSE r.data

(***************************************************************************)
(* get_last_fade: the chain position (1-based) of the most recent Fade     *)
(* with the same channel selector, 0 for the NULL result.                  *)
(***************************************************************************)
get_last_fade(d, target_channel) ==
    LET S == {i \in 1..d.mixing_count :
                 /\ d.mixing_chain[i].command = "MIX_FADE"
                 /\ d.mixing_chain[i].ch_dst = target_channel}
    IN  IF S = {} THEN 0 ELSE CHOOSE i \in S : \A j \in S : j <= i

\* the legacy shape codes
FadeShape(shape) ==
    IF shape = "{" \/ shape = "}" THEN "E"
    ELSE IF shape = "(" \/ shape = ")" THEN "H"
    ELSE shape

(***************************************************************************)
(* The stitching pass of mixing_push_fade (lines 629-652) on the previous  *)
(* Fade and the new one: both as left by it.  The first test of line 638   *)
(* reads mix_prev->time_post twice, as the source does.                    *)
(***************************************************************************)
\* each open bound closed at its own Fade: no shared point
FadeStitch_apart(prev, mix) ==
    IF prev.time_post < 0 \/ mix.time_pre < 0
    THEN LET is_prev == ~ \/ prev.time_end > mix.time_start
                          \/ (prev.time_post >= 0 /\ prev.time_post > mix.time_start)
                          \/ (mix.time_pre >= 0 /\ mix.time_pre < prev.time_end)
         IN  IF is_prev
             THEN [prev |-> IF prev.time_post < 0
                            THEN [prev EXCEPT !.time_post = prev.time_end] ELSE prev,
                   mix  |-> IF mix.time_pre < 0
                            THEN [mix EXCEPT !.time_pre = mix.time_start] ELSE mix]
             ELSE [prev |-> prev, mix |-> mix]
    ELSE [prev |-> prev, mix |-> mix]

FadeStitch_unordered(prev, mix) ==
    IF prev.time_post < 0 \/ mix.time_pre < 0
    THEN LET prev1 == IF prev.time_post < 0 /\ prev.time_post < 0
                      THEN [prev EXCEPT !.time_post = prev.time_end] ELSE prev
             mix1  == IF prev.time_post < 0 /\ prev.time_post < 0
                      THEN [mix EXCEPT !.time_pre = prev1.time_post] ELSE mix
             second == prev1.time_post >= 0 /\ mix1.time_pre < 0
             third  == ~second /\ prev1.time_post < 0 /\ mix1.time_pre >= 0
         IN  [prev |-> IF third THEN [prev1 EXCEPT !.time_post = mix1.time_pre] ELSE prev1,
              mix  |-> IF second THEN [mix1 EXCEPT !.time_pre = prev1.time_post] ELSE mix1]
    ELSE [prev |-> prev, mix |-> mix]

FadeStitch(prev, mix) ==
    IF prev.time_post < 0 \/ mix.time_pre < 0
    THEN LET is_prev == ~ \/ prev.time_end > mix.time_start
                          \/ (prev.time_post >= 0 /\ prev.time_post > mix.time_start)
                          \/ (mix.time_pre >= 0 /\ mix.time_pre < prev.time_end)
         IN  IF is_prev
             THEN LET prev1 == IF prev.time_post < 0 /\ prev.time_post < 0
                               THEN [prev EXCEPT !.time_post = prev.time_end] ELSE prev
                      mix1  == IF prev.time_post < 0 /\ prev.time_post < 0
                               THEN [mix EXCEPT !.time_pre = prev1.time_post] ELSE mix
                      second == prev1.time_post >= 0 /\ mix1.time_pre < 0
                      third  == ~second /\ prev1.time_post < 0 /\ mix1.time_pre >= 0
                  IN  [prev |-> IF third THEN [prev1 EXCEPT !.time_post = mix1.time_pre]
                                ELSE prev1,
                       mix  |-> IF second THEN [mix1 EXCEPT !.time_pre = prev1.time_post]
                                ELSE mix1]
             ELSE [prev |-> prev, mix |-> mix]
    ELSE [prev |-> prev, mix |-> mix]

\* The timing validation of lines 588-589: TRUE when the call returns early.
FadeTimesRejected(time_pre, time_start, time_end, time_post) ==
    \/ time_pre > time_start
    \/ time_start > time_end
    \/ (time_post >= 0 /\ time_end > time_post)
    \/ time_start < 0
    \/ time_end < 0

(***************************************************************************)
(* mixing_push_fade.  With no previous Fade the source assigns to its own  *)
(* parameters time_pre and time_post (lines 624-627) after mix.time_pre    *)
(* and mix.time_post were copied from them (lines 603-606), and never      *)
(* reads them again: the stored command keeps the values given.  With a    *)
(* previous Fade the stitching writes through mix_prev before add_mixing   *)
(* decides whether the new command is stored.                              *)
(***************************************************************************)
mixing_push_fade(d, ch_dst, vol_start, vol_end, shape, time_pre, time_start, time_end, time_post) ==
    IF d = NULL THEN d
    ELSE IF ch_dst >= d.output_channels THEN d
    ELSE IF FadeTimesRejected(time_pre, time_start, time_end, time_post) THEN d
    ELSE LET mix == [ZeroMix("MIX_FADE") EXCEPT
                        !.ch_dst = ch_dst, !.vol_start = ToFloat(vol_start),
                        !.vol_end = ToFloat(vol_end),
                        !.shape = FadeShape(shape), !.time_pre = time_pre,
                        !.time_start = time_start, !.time_end = time_end,
                        !.time_post = time_post]
             p   == get_last_fade(d, ch_dst)
         IN  IF p = 0
             THEN add_mixing(d, mix).data
             ELSE LET st == FadeStitch(d.mixing_chain[p], mix)
                  IN  add_mixing([d EXCEPT !.mixing_chain[p] = st.prev], st.mix).data

(***************************************************************************)
(* The macros.  Each C loop is a recursive operator over its loop          *)
(* variables; the state d is threaded through the constructor calls.       *)
(***************************************************************************)
RECURSIVE MacroVolumeLoop(_, _, _, _)
MacroVolumeLoop(d, volume, mask, ch) ==
    IF ch >= d.output_channels THEN d
    ELSE MacroVolumeLoop(IF Bit(mask, ch) = 1 THEN mixing_push_volume(d, ch, volume) ELSE d,
                         volume, mask, ch + 1)

mixing_macro_volume(d, volume, mask) ==
    IF d = NULL THEN d
    ELSE IF mask = 0 THEN mixing_push_volume(d, -1, volume)
    ELSE MacroVolumeLoop(d, volume, mask, 0)

RECURSIVE MacroTrackLoop(_, _, _)
MacroTrackLoop(d, mask, ch) ==
    IF ch < 0 THEN d
    ELSE MacroTrackLoop(IF Bit(mask, ch) = 1 THEN d ELSE mixing_push_downmix(d, ch),
                        mask, ch - 1)

RECURSIVE MacroTrackLoopUp(_, _, _, _)
MacroTrackLoopUp(d, mask, ch, output_channels) ==
    IF ch >= output_channels THEN d
    ELSE MacroTrackLoopUp(IF Bit(mask, ch) = 1 THEN d ELSE mixing_push_downmix(d, ch),
                          mask, ch + 1, output_channels)

mixing_macro_track_ascending(d, mask) ==
    IF d = NULL THEN d
    ELSE IF mask = 0 THEN d
    ELSE MacroTrackLoopUp(d, mask, 0, d.output_channels)

mixing_macro_track(d, mask) ==
    IF d = NULL THEN d
    ELSE IF mask = 0 THEN d
    ELSE MacroTrackLoop(d, mask, d.output_channels - 1)

RECURSIVE UpmixTimes(_, _)
UpmixTimes(d, n) ==
    IF n <= 0 THEN d ELSE UpmixTimes(mixing_push_upmix(d, 0), n - 1)

RECURSIVE CountSelected(_, _)
CountSelected(mask, channels) ==
    IF channels <= 0 THEN 0
    ELSE CountSelected(mask, channels - 1) + Bit(mask, channels - 1)

\* The volume of one layer (lines 729-758).  Line 740 takes a remainder by
\* zero when selected_channels < max, which is undefined: either the
\* division instruction traps (traps = TRUE, fault is TRUE) or it yields a
\* zero quotient and the remainder is the dividend.
LayerVolume(mode, ch, max, current, selected_channels, traps) ==
    IF mode = "b" /\ ch < max
    THEN LET m0 == selected_channels \div max
         IN  IF m0 * max = 0 /\ traps THEN [fault |-> TRUE, vol |-> 0]
             ELSE LET rem == IF m0 * max = 0 THEN selected_channels
                             ELSE selected_channels % (m0 * max)
                      m1 == IF current < rem THEN m0 + 1 ELSE m0
                      m2 == m1 - 1
                      m3 == IF m2 <= 0 THEN 1 ELSE m2
                  IN  [fault |-> FALSE, vol |-> InvSqrt[m3]]
    ELSE IF (mode = "b" /\ ch >= max) \/ mode = "e"
    THEN LET m0 == selected_channels \div max
             m1 == IF m0 <= 0 THEN 1 ELSE m0
             m2 == IF current < selected_channels % (m1 * max) THEN m1 + 1 ELSE m1
         IN  [fault |-> FALSE, vol |-> InvSqrt[m2]]
    ELSE [fault |-> FALSE, vol |-> DblOne]

RECURSIVE MacroLayerLoop(_, _, _, _, _, _, _, _, _)
MacroLayerLoop(d, max, mask, mode, output_channels, selected_channels, ch, current, traps) ==
    IF ch >= output_channels THEN d
    ELSE IF Bit(mask, ch) = 0
    THEN MacroLayerLoop(d, max, mask, mode, output_channels, selected_channels,
                        ch + 1, current, traps)
    ELSE LET v == LayerVolume(mode, ch, max, current, selected_channels, traps)
         IN  IF v.fault THEN FAULT
             ELSE MacroLayerLoop(mixing_push_add(d, current, max + ch, v.vol),
                                 max, mask, mode, output_channels, selected_channels,
                                 ch + 1, IF current + 1 >= max THEN 0 ELSE current + 1,
                                 traps)

mixing_macro_layer_nokill(d, max, mask0, mode, traps) ==
    IF d = NULL THEN d
    ELSE IF max <= 0 \/ d.output_channels <= max THEN d
    ELSE LET mask == IF mask0 = 0 THEN ALL_ONES ELSE mask0
             output_channels == d.output_channels
             selected_channels == CountSelected(mask, output_channels)
             d1 == UpmixTimes(d, max)
         IN  MacroLayerLoop(d1, max, mask, mode, output_channels,
                            selected_channels, 0, 0, traps)

\* traps: what a remainder by zero does on the machine the build runs on
mixing_macro_layer(d, max, mask0, mode, traps) ==
    IF d = NULL THEN d
    ELSE IF max <= 0 \/ d.output_channels <= max THEN d
    ELSE LET mask == IF mask0 = 0 THEN ALL_ONES ELSE mask0
             output_channels == d.output_channels
             selected_channels == CountSelected(mask, output_channels)
             d1 == UpmixTimes(d, max)
             d2 == MacroLayerLoop(d1, max, mask, mode, output_channels,
                                  selected_channels, 0, 0, traps)
         IN  IF d2 = FAULT THEN FAULT ELSE mixing_push_killmix(d2, max)

(***************************************************************************)
(* The loop-driven macros read and bump the stream: they return the state  *)
(* and the stream's config_loop_count.  vs is the VGMSTREAM record.        *)
(***************************************************************************)
RECURSIVE SumTracksLoop_nowrap(_, _, _, _, _)
SumTracksLoop_nowrap(d, max, output_channels, ch, current) ==
    IF ch >= output_channels THEN d
    ELSE SumTracksLoop_nowrap(mixing_push_add(d, current, ch, DblOne), max, output_channels,
                              ch + 1, current + 1)

RECURSIVE SumTracksLoop(_, _, _, _, _)
SumTracksLoop(d, max, output_channels, ch, current) ==
    IF ch >= output_channels THEN d
    ELSE SumTracksLoop(mixing_push_add(d, current, ch, DblOne), max, output_channels,
                       ch + 1, IF current + 1 >= max THEN 0 ELSE current + 1)

CrosstrackFades_same(d, vs, target, track, track_num) ==
    LET loop_pre     == vs.loop_start_sample
        loop_samples == vs.loop_end_sample - vs.loop_start_sample
        change_pos   == loop_pre + loop_samples * track
        change_time  == 15 * vs.sample_rate
        d1 == IF track > 0
              THEN mixing_push_fade(d, target, 0, DblOne, "(",
                                    -1, change_pos, change_pos + change_time, -1)
              ELSE d
    IN  IF track + 1 < track_num
        THEN mixing_push_fade(d1, target, DblOne, 0, ")",
                              -1, change_pos, change_pos + change_time, -1)
        ELSE d1

\* lines 805-813: the fades of one channel of one track
CrosstrackFades(d, vs, target, track, track_num) ==
    LET loop_pre     == vs.loop_start_sample
        loop_samples == vs.loop_end_sample - vs.loop_start_sample
        change_pos   == loop_pre + loop_samples * track
        change_next  == loop_pre + loop_samples * (track + 1)
        change_time  == 15 * vs.sample_rate
        d1 == IF track > 0
              THEN mixing_push_fade(d, target, 0, DblOne, "(",
                                    -1, change_pos, change_pos + change_time, -1)
              ELSE d
    IN  IF track + 1 < track_num
        THEN mixing_push_fade(d1, target, DblOne, 0, ")",
                              -1, change_next, change_next + change_time, -1)
        ELSE d1

RECURSIVE CrosstrackLoop(_, _, _, _, _, _)
CrosstrackLoop(d, vs, max, track_num, track, track_ch) ==
    IF track >= track_num THEN d
    ELSE IF track_ch >= max THEN CrosstrackLoop(d, vs, max, track_num, track + 1, 0)
    ELSE CrosstrackLoop(CrosstrackFades(d, vs, track * max + track_ch, track, track_num),
                        vs, max, track_num, track, track_ch + 1)

mixing_macro_crosstrack_set(d, vs, max) ==
    IF d = NULL THEN [data |-> d, vs |-> vs]
    ELSE IF max <= 0 \/ d.output_channels <= max THEN [data |-> d, vs |-> vs]
    ELSE IF ~vs.loop_flag THEN [data |-> d, vs |-> vs]
    ELSE LET odd == d.output_channels % 2 = 1
             d1  == IF odd THEN mixing_push_upmix(d, d.output_channels) ELSE d
             output_channels == IF odd THEN d.output_channels + 1 ELSE d.output_channels
             track_num == output_channels \div max
             vs1 == [vs EXCEPT !.config_loop_count = track_num]
             d2  == CrosstrackLoop(d1, vs1, max, track_num, 0, 0)
             d3  == SumTracksLoop(d2, max, output_channels, max, 0)
         IN  [data |-> mixing_push_killmix(d3, max), vs |-> vs1]

\* the loop count raised from the stream's own channels before the state
\* is looked at
mixing_macro_crosstrack_countfirst(d, vs, max) ==
    IF d = NULL
    THEN LET track_num == IF max > 0 THEN (vs.channels + (vs.channels % 2)) \div max ELSE 0
         IN  [data |-> d,
              vs   |-> IF vs.loop_flag /\ vs.config_loop_count < track_num
                       THEN [vs EXCEPT !.config_loop_count = track_num] ELSE vs]
    ELSE IF max <= 0 \/ d.output_channels <= max THEN [data |-> d, vs |-> vs]
    ELSE IF ~vs.loop_flag THEN [data |-> d, vs |-> vs]
    ELSE LET odd == d.output_channels % 2 = 1
             d1  == IF odd THEN mixing_push_upmix(d, d.output_channels) ELSE d
             output_channels == IF odd THEN d.output_channels + 1 ELSE d.output_channels
             track_num == output_channels \div max
             vs1 == IF vs.config_loop_count < track_num
                    THEN [vs EXCEPT !.config_loop_count = track_num] ELSE vs
             d2  == CrosstrackLoop(d1, vs1, max, track_num, 0, 0)
             d3  == SumTracksLoop(d2, max, output_channels, max, 0)
         IN  [data |-> mixing_push_killmix(d3, max), vs |-> vs1]

mixing_macro_crosstrack(d, vs, max) ==
    IF d = NULL THEN [data |-> d, vs |-> vs]
    ELSE IF max <= 0 \/ d.output_channels <= max THEN [data |-> d, vs |-> vs]
    ELSE IF ~vs.loop_flag THEN [data |-> d, vs |-> vs]
    ELSE LET odd == d.output_channels % 2 = 1
             d1  == IF odd THEN mixing_push_upmix(d, d.output_channels) ELSE d
             output_channels == IF odd THEN d.output_channels + 1 ELSE d.output_channels
             track_num == output_channels \div max
             vs1 == IF vs.config_loop_count < track_num
                    THEN [vs EXCEPT !.config_loop_count = track_num] ELSE vs
             d2  == CrosstrackLoop(d1, vs1, max, track_num, 0, 0)
             d3  == SumTracksLoop(d2, max, output_channels, max, 0)
         IN  [data |-> mixing_push_killmix(d3, max), vs |-> vs1]

\* lines 866-901: the two volumes and the shape of one layer in one loop;
\* volume1/volume2 carry over from one layer to the next within a loop.
CrosslayerVolumes(mode, loop, layer, volume1, volume2) ==
    LET v1 == IF mode = "b"
              THEN (IF layer = 0
                    THEN InvSqrt[IF loop - 1 <= 0 THEN 1 ELSE loop - 1]
                    ELSE InvSqrt[loop])
              ELSE volume1
        v2 == IF mode = "b"
              THEN (IF layer = 0 THEN InvSqrt[loop] ELSE InvSqrt[loop + 1])
              ELSE volume2
    IN  [volume1 |-> IF layer = loop THEN 0 ELSE v1,
         volume2 |-> v2,
         type    |-> IF layer = loop THEN "(" ELSE ")"]

RECURSIVE CrosslayerChLoop(_, _, _, _, _, _, _)
CrosslayerChLoop(d, vs, max, loop, layer, v, layer_ch) ==
    IF layer_ch >= max THEN d
    ELSE LET change_pos  == vs.loop_start_sample
                            + (vs.loop_end_sample - vs.loop_start_sample) * loop
             change_time == 10 * vs.sample_rate
         IN  CrosslayerChLoop(
                 mixing_push_fade(d, layer * max + layer_ch, v.volume1, v.volume2, v.type,
                                  -1, change_pos, change_pos + change_time, -1),
                 vs, max, loop, layer, v, layer_ch + 1)

\* The "continue" of line 894 skips "ch += max" too: ch counts the layers
\* that were not skipped.  Layers above the loop come last, so for every
\* layer that is not skipped ch equals layer * max.
RECURSIVE CrosslayerLayerLoop(_, _, _, _, _, _, _, _, _)
CrosslayerLayerLoop(d, vs, max, mode, layer_num, loop, layer, volume1, volume2) ==
    IF layer >= layer_num THEN d
    ELSE IF layer > loop
    THEN LET v == CrosslayerVolumes(mode, loop, layer, volume1, volume2)
         IN  CrosslayerLayerLoop(d, vs, max, mode, layer_num, loop, layer + 1,
                                 IF mode = "b" THEN InvSqrt[loop] ELSE volume1,
                                 v.volume2)
    ELSE LET v == CrosslayerVolumes(mode, loop, layer, volume1, volume2)
         IN  CrosslayerLayerLoop(CrosslayerChLoop(d, vs, max, loop, layer, v, 0),
                                 vs, max, mode, layer_num, loop, layer + 1,
                                 v.volume1, v.volume2)

RECURSIVE CrosslayerLoop(_, _, _, _, _, _)
CrosslayerLoop(d, vs, max, mode, layer_num, loop) ==
    IF loop >= layer_num THEN d
    ELSE LET volume1 == IF mode = "e" THEN InvSqrt[loop] ELSE DblOne
             volume2 == IF mode = "e" THEN InvSqrt[loop + 1] ELSE DblOne
         IN  CrosslayerLoop(
                 CrosslayerLayerLoop(d, vs, max, mode, layer_num, loop, 0, volume1, volume2),
                 vs, max, mode, layer_num, loop + 1)

mixing_macro_crosslayer(d, vs, max, mode) ==
    IF d = NULL THEN [data |-> d, vs |-> vs]
    ELSE IF max <= 0 \/ d.output_channels <= max THEN [data |-> d, vs |-> vs]
    ELSE IF ~vs.loop_flag THEN [data |-> d, vs |-> vs]
    ELSE LET odd == d.output_channels % 2 = 1
             d1  == IF odd THEN mixing_push_upmix(d, d.output_channels) ELSE d
             output_channels == IF odd THEN d.output_channels + 1 ELSE d.output_channels
             layer_num == output_channels \div max
             vs1 == IF vs.config_loop_count < layer_num
                    THEN [vs EXCEPT !.config_loop_count = layer_num] ELSE vs
             d2  == CrosslayerLoop(d1, vs1, max, mode, layer_num, 1)
             d3  == SumTracksLoop(d2, max, output_channels, max, 0)
         IN  [data |-> mixing_push_killmix(d3, max), vs |-> vs1]

(***************************************************************************)
(* Activation and the query call.                                          *)
(***************************************************************************)
\* What an allocated and never written float holds: an indeterminate value,
\* kept symbolic.  Every operation on it yields it again, and the final pass
\* turns it into the indeterminate sample INDET.
GARBAGE == -987654321

INDET == -876543210

\* realloc(mixbuf, n floats): n floats, none of them written by the caller
Realloc(buf, n) ==
    [i \in 1..n |-> IF i <= Len(buf) THEN buf[i] ELSE GARBAGE]

\* the flag set before the allocation is known to have succeeded
mixing_setup_flag_first(d, vs, max_sample_count, alloc_ok) ==
    IF d = NULL THEN [data |-> d, vs |-> vs]
    ELSE LET vs1 == IF vs.channel_layout # 0 /\ vs.channels # d.output_channels
                    THEN [vs EXCEPT !.channel_layout = 0] ELSE vs
         IN  IF max_sample_count <= 0 THEN [data |-> d, vs |-> vs1]
             ELSE IF ~alloc_ok THEN [data |-> [d EXCEPT !.mixing_on = TRUE], vs |-> vs1]
             ELSE [data |-> [d EXCEPT !.mixbuf = Realloc(@, max_sample_count * d.mixing_channels),
                                      !.mixing_on = TRUE],
                   vs   |-> vs1]

\* alloc_ok: whether realloc returns a buffer.
mixing_setup(d, vs, max_sample_count, alloc_ok) ==
    IF d = NULL THEN [data |-> d, vs |-> vs]
    ELSE LET vs1 == IF vs.channel_layout # 0 /\ vs.channels # d.output_channels
                    THEN [vs EXCEPT !.channel_layout = 0] ELSE vs
         IN  IF max_sample_count <= 0 THEN [data |-> d, vs |-> vs1]
             ELSE IF ~alloc_ok THEN [data |-> d, vs |-> vs1]
             ELSE [data |-> [d EXCEPT !.mixbuf = Realloc(@, max_sample_count * d.mixing_channels),
                                      !.mixing_on = TRUE],
                   vs   |-> vs1]

\* the input width taken from the stream alone
mixing_info_native(d, vs) ==
    IF d = NULL THEN [set |-> FALSE, input_channels |-> 0, output_channels |-> 0]
    ELSE [set             |-> TRUE,
          input_channels  |-> vs.channels,
          output_channels |-> d.output_channels]

\* set is FALSE where the out-parameters are left unwritten
mixing_info(d, vs) ==
    IF d = NULL THEN [set |-> FALSE, input_channels |-> 0, output_channels |-> 0]
    ELSE [set             |-> TRUE,
          input_channels  |-> IF d.output_channels > vs.channels
                              THEN d.output_channels ELSE vs.channels,
          output_channels |-> d.output_channels]

(***************************************************************************)
(* The execution engine.                                                   *)
(***************************************************************************)
\* the window of a Fade closed at its time_end
is_active_ended(d, current_start, current_end) ==
    \E i \in 1..d.mixing_count :
        LET mix == d.mixing_chain[i]
            fade_start == IF mix.time_pre < 0 THEN 0 ELSE mix.time_pre
            fade_end   == mix.time_end
        IN  \/ mix.command # "MIX_FADE"
            \/ (current_start < fade_end /\ current_end > fade_start)

is_active_first(d, current_start, current_end) ==
    \E i \in 1..(IF d.mixing_count > 0 THEN 1 ELSE 0) :
        LET mix == d.mixing_chain[i]
            fade_start == IF mix.time_pre < 0 THEN 0 ELSE mix.time_pre
            fade_end   == IF mix.time_post < 0 THEN INT_MAX ELSE mix.time_post
        IN  \/ mix.command # "MIX_FADE"
            \/ (current_start < fade_end /\ current_end > fade_start)

is_active(d, current_start, current_end) ==
    \E i \in 1..d.mixing_count :
        LET mix == d.mixing_chain[i]
            fade_start == IF mix.time_pre < 0 THEN 0 ELSE mix.time_pre
            fade_end   == IF mix.time_post < 0 THEN INT_MAX ELSE mix.time_post
        IN  \/ mix.command # "MIX_FADE"
            \/ (current_start < fade_end /\ current_end > fade_start)

get_current_pos(vs) ==
    IF vs.loop_flag /\ vs.current_sample > vs.loop_start_sample
    THEN LET loop_pre     == vs.loop_start_sample
             loop_into    == vs.current_sample - vs.loop_start_sample
             loop_samples == vs.loop_end_sample - vs.loop_start_sample
         IN  loop_pre + loop_into + loop_samples * vs.loop_count
    ELSE vs.current_sample

\* C's integer division and float-to-int cast: toward zero (b > 0)
TruncDiv(a, b) == IF a >= 0 THEN a \div b ELSE -((-a) \div b)

Abs(a) == IF a < 0 THEN -a ELSE a

\* the product of two fixed-point values, cut toward zero
MulFx(a, b) ==
    LET A == Abs(a)
        B == Abs(b)
        m == (A \div VolOne) * B + ((A % VolOne) * B) \div VolOne
    IN  IF (a < 0) = (b < 0) THEN m ELSE -m

\* e^y for a fixed-point y >= 0: the power series, term k+1 from term k
RECURSIVE ExpSeries(_, _, _, _)
ExpSeries(y, k, term, sum) ==
    IF term = 0 \/ k > 40 THEN sum
    ELSE ExpSeries(y, k + 1, (term * y) \div (k * VolOne), sum + term)

\* exp(-y)
ExpNeg(y) == (VolOne * VolOne) \div ExpSeries(y, 1, VolOne, 0)

\* cos z (start the series at k = 1, term 1.0) and sin z (k = 2, term z)
RECURSIVE TrigSeries(_, _, _, _)
TrigSeries(z, k, term, sum) ==
    IF term = 0 \/ k > 40 THEN sum
    ELSE TrigSeries(z, k + 2,
                    -TruncDiv(TruncDiv(term * z, k * VolOne) * z, (k + 1) * VolOne),
                    sum + term)

FX_PI == 3142

FX_K == 5756

\* the shape functions of lines 177-209 on a fixed-point index in [0, 1]
ShapeGain_square(shape, index) ==
    CASE shape = "E" -> ExpNeg(MulFx(FX_K, VolOne - index))
      [] shape = "L" -> VolOne - ExpNeg(MulFx(FX_K, index))
      [] shape = "H" -> (VolOne - TrigSeries(MulFx(index, FX_PI), 1, VolOne, 0)) \div 2
      [] shape = "Q" -> LET z == MulFx(index, FX_PI) \div 2
                        IN  TrigSeries(z, 2, z, 0)
      [] shape = "p" -> VolOne - ISqrt((VolOne - index) * VolOne)
      [] shape = "P" -> VolOne - MulFx(VolOne - index, VolOne - index)
      [] OTHER       -> MulFx(index, index)

ShapeGain(shape, index) ==
    CASE shape = "E" -> ExpNeg(MulFx(FX_K, VolOne - index))
      [] shape = "L" -> VolOne - ExpNeg(MulFx(FX_K, index))
      [] shape = "H" -> (VolOne - TrigSeries(MulFx(index, FX_PI), 1, VolOne, 0)) \div 2
      [] shape = "Q" -> LET z == MulFx(index, FX_PI) \div 2
                        IN  TrigSeries(z, 2, z, 0)
      [] shape = "p" -> VolOne - ISqrt((VolOne - index) * VolOne)
      [] shape = "P" -> VolOne - MulFx(VolOne - index, VolOne - index)
      [] OTHER       -> index

\* the region after the fade starting one position late
get_fade_gain_late(mix, current_subpos) ==
    IF (current_subpos >= mix.time_pre \/ mix.time_pre < 0) /\ current_subpos < mix.time_start
    THEN [ok |-> TRUE, cur_vol |-> mix.vol_start]
    ELSE IF current_subpos > mix.time_end
            /\ (current_subpos < mix.time_post \/ mix.time_post < 0)
    THEN [ok |-> TRUE, cur_vol |-> mix.vol_end]
    ELSE IF current_subpos >= mix.time_start /\ current_subpos < mix.time_end
    THEN LET range_vol == mix.vol_end - mix.vol_start
             range_dur == mix.time_end - mix.time_start
             range_idx == IF mix.vol_start < mix.vol_end
                          THEN current_subpos - mix.time_start
                          ELSE mix.time_end - current_subpos
             index     == (range_idx * VolOne) \div range_dur
             gain      == ShapeGain(mix.shape, index)
         IN  [ok      |-> TRUE,
              cur_vol |-> IF mix.vol_start < mix.vol_end
                          THEN mix.vol_start + MulFx(range_vol, gain)
                          ELSE mix.vol_end - MulFx(range_vol, gain)]
    ELSE [ok |-> FALSE, cur_vol |-> 0]

\* get_fade_gain: ok is the value returned, cur_vol what *out_cur_vol gets
get_fade_gain_closed(mix, current_subpos) ==
    IF current_subpos >= mix.time_pre /\ current_subpos < mix.time_start
    THEN [ok |-> TRUE, cur_vol |-> mix.vol_start]
    ELSE IF current_subpos >= mix.time_end /\ current_subpos < mix.time_post
    THEN [ok |-> TRUE, cur_vol |-> mix.vol_end]
    ELSE IF current_subpos >= mix.time_start /\ current_subpos < mix.time_end
    THEN LET range_vol == mix.vol_end - mix.vol_start
             range_dur == mix.time_end - mix.time_start
             range_idx == IF mix.vol_start < mix.vol_end
                          THEN current_subpos - mix.time_start
                          ELSE mix.time_end - current_subpos
             index     == (range_idx * VolOne) \div range_dur
             gain      == ShapeGain(mix.shape, index)
         IN  [ok      |-> TRUE,
              cur_vol |-> IF mix.vol_start < mix.vol_end
                          THEN mix.vol_start + MulFx(range_vol, gain)
                          ELSE mix.vol_end - MulFx(range_vol, gain)]
    ELSE [ok |-> FALSE, cur_vol |-> 0]

get_fade_gain(mix, current_subpos) ==
    IF (current_subpos >= mix.time_pre \/ mix.time_pre < 0) /\ current_subpos < mix.time_start
    THEN [ok |-> TRUE, cur_vol |-> mix.vol_start]
    ELSE IF current_subpos >= mix.time_end
            /\ (current_subpos < mix.time_post \/ mix.time_post < 0)
    THEN [ok |-> TRUE, cur_vol |-> mix.vol_end]
    ELSE IF current_subpos >= mix.time_start /\ current_subpos < mix.time_end
    THEN LET range_vol == mix.vol_end - mix.vol_start
             range_dur == mix.time_end - mix.time_start
             range_idx == IF mix.vol_start < mix.vol_end
                          THEN current_subpos - mix.time_start
                          ELSE mix.time_end - current_subpos
             index     == (range_idx * VolOne) \div range_dur
             gain      == ShapeGain(mix.shape, index)
         IN  [ok      |-> TRUE,
              cur_vol |-> IF mix.vol_start < mix.vol_end
                          THEN mix.vol_start + MulFx(range_vol, gain)
                          ELSE mix.vol_end - MulFx(range_vol, gain)]
    ELSE [ok |-> FALSE, cur_vol |-> 0]

\* The working values the model follows exactly: the magnitudes up to FxMax
\* (in units of 1/VolOne).
FxMax == 2000000000

\* A float beyond them whose magnitude is below 2^31: the cast of line 376
\* is defined.
BIG_POS == 2100000001

BIG_NEG == -2100000001

\* A float of magnitude 2^31 or more: the cast of line 376 is undefined.
HUGE_POS == 2100000002

HUGE_NEG == -2100000002

INT_MIN == (-INT_MAX) - 1

Beyond(a) == a \in {BIG_POS, BIG_NEG, HUGE_POS, HUGE_NEG}

\* Float arithmetic on working values, the indeterminate value propagated.
\* The class of a product beyond the exact range is decided on the integer
\* parts of its factors.  A value beyond the exact range keeps its class
\* through later arithmetic (its magnitude is not followed).
FMul(a, vol) ==
    IF a = GARBAGE THEN GARBAGE
    ELSE IF a = 0 \/ vol = 0 THEN 0
    ELSE IF Beyond(a) THEN (IF vol > 0 THEN a ELSE -a)
    ELSE LET A   == Abs(a)
             B   == Abs(vol)
             A1  == A \div VolOne
             B1  == B \div VolOne
             pos == (a < 0) = (vol < 0)
         IN  IF B1 = 0 THEN MulFx(a, vol)
             ELSE IF A1 > INT_MAX \div B1 THEN (IF pos THEN HUGE_POS ELSE HUGE_NEG)
             ELSE IF A > FxMax \div (B1 + 1) THEN (IF pos THEN BIG_POS ELSE BIG_NEG)
             ELSE IF B1 < VolOne THEN MulFx(a, vol)
             ELSE LET m == B1 * A + ((B % VolOne) * A) \div VolOne
                  IN  IF pos THEN m ELSE -m

FAdd(a, b) ==
    IF a = GARBAGE \/ b = GARBAGE THEN GARBAGE
    ELSE IF Beyond(a) THEN a
    ELSE IF Beyond(b) THEN b
    ELSE IF Abs(a) > FxMax - Abs(b) THEN (IF a + b > 0 THEN BIG_POS ELSE BIG_NEG)
    ELSE a + b

\* (int32_t)f of line 376: toward zero; for a float outside the range of
\* int32_t the conversion is undefined, and what the build produces is
\* either the saturated value (sat) or the "integer indefinite" INT_MIN.
Cast32(f, sat) ==
    IF f = HUGE_POS THEN (IF sat THEN INT_MAX ELSE INT_MIN)
    ELSE IF f = HUGE_NEG THEN INT_MIN
    ELSE IF f = BIG_POS THEN FxMax \div VolOne
    ELSE IF f = BIG_NEG THEN -(FxMax \div VolOne)
    ELSE TruncDiv(f, VolOne)

FLimit(a, temp_max, temp_min) ==
    IF a = GARBAGE THEN GARBAGE
    ELSE IF a > temp_max THEN temp_max
    ELSE IF a < temp_min THEN temp_min
    ELSE a

clamp16(v) == IF v > 32767 THEN 32767 ELSE IF v < -32768 THEN -32768 ELSE v

\* mixbuf[idx] (C index); outside the allocation the read is indeterminate
Rd(buf, idx) == IF idx >= 0 /\ idx < Len(buf) THEN buf[idx + 1] ELSE GARBAGE

SetMax(S, dflt) == IF S = {} THEN dflt ELSE CHOOSE x \in S : \A y \in S : y <= x

(***************************************************************************)
(* The state of one mix call while it runs: buf is mixbuf, off the C index *)
(* of stpbuf in it, n is step_channels.  The rest records what the call    *)
(* did: oob whether a lane outside the allocation was read or written,     *)
(* back whether a lane below the start of the current row was, max_lane    *)
(* the highest lane index used, widths the final step_channels of every    *)
(* row so far.                                                             *)
(*                                                                         *)
(* Commit writes F[ch] to every lane ch of W (the right-hand sides read    *)
(* the buffer as it was before the command) after reading the lanes of R.  *)
(***************************************************************************)
Commit(st, n1, W, R, F) ==
    [st EXCEPT
        !.buf = [i \in 1..Len(st.buf) |->
                    IF (i - 1 - st.off) \in W THEN F[i - 1 - st.off] ELSE st.buf[i]],
        !.n = n1,
        !.oob = st.oob \/ \E ch \in W \cup R : st.off + ch < 0 \/ st.off + ch >= Len(st.buf),
        !.back = st.back \/ \E ch \in W \cup R : ch < 0,
        !.max_lane = SetMax(W \cup R \cup {st.max_lane}, st.max_lane)]

\* lines 278-282; without the temporary both lanes end as the source
MixSwap_notemp(st, mix) ==
    LET lane(ch) == Rd(st.buf, st.off + ch)
    IN  Commit(st, st.n, {mix.ch_dst, mix.ch_src}, {mix.ch_dst, mix.ch_src},
               [ch \in {mix.ch_dst, mix.ch_src} |-> lane(mix.ch_src)])

MixSwap(st, mix) ==
    LET lane(ch) == Rd(st.buf, st.off + ch)
    IN  Commit(st, st.n, {mix.ch_dst, mix.ch_src}, {mix.ch_dst, mix.ch_src},
               [ch \in {mix.ch_dst, mix.ch_src} |->
                   IF ch = mix.ch_dst THEN lane(mix.ch_src) ELSE lane(mix.ch_dst)])

\* lines 288-297; the loop bound off by one scales the lane above the row
MixVolume_wide(st, mix) ==
    LET lane(ch) == Rd(st.buf, st.off + ch)
        sel      == IF mix.ch_dst < 0 THEN 0..st.n ELSE {mix.ch_dst}
    IN  Commit(st, st.n, sel, sel, [ch \in sel |-> FMul(lane(ch), mix.vol)])

MixVolume(st, mix) ==
    LET lane(ch) == Rd(st.buf, st.off + ch)
        sel      == IF mix.ch_dst < 0 THEN 0..(st.n - 1) ELSE {mix.ch_dst}
    IN  Commit(st, st.n, sel, sel, [ch \in sel |-> FMul(lane(ch), mix.vol)])

\* lines 319-325
MixUpmix(st, mix) ==
    LET lane(ch) == Rd(st.buf, st.off + ch)
    IN  Commit(st, st.n + 1, mix.ch_dst..st.n, mix.ch_dst..(st.n - 1),
               [ch \in mix.ch_dst..st.n |-> IF ch = mix.ch_dst THEN 0 ELSE lane(ch - 1)])

\* lines 327-332; pulling from the target's own lane on keeps lane ch_dst
MixDownmix_above(st, mix) ==
    LET lane(ch) == Rd(st.buf, st.off + ch)
    IN  Commit(st, st.n - 1, (mix.ch_dst + 1)..(st.n - 2), (mix.ch_dst + 2)..(st.n - 1),
               [ch \in (mix.ch_dst + 1)..(st.n - 2) |-> lane(ch + 1)])

MixDownmix(st, mix) ==
    LET lane(ch) == Rd(st.buf, st.off + ch)
    IN  Commit(st, st.n - 1, mix.ch_dst..(st.n - 2), (mix.ch_dst + 1)..(st.n - 1),
               [ch \in mix.ch_dst..(st.n - 2) |-> lane(ch + 1)])

\* one command of the switch of lines 276-358 on the current row
ApplyMix(st, mix, current_subpos) ==
    LET lane(ch) == Rd(st.buf, st.off + ch)
        all      == 0..(st.n - 1)
        sel      == IF mix.ch_dst < 0 THEN all ELSE {mix.ch_dst}
    IN  CASE mix.command = "MIX_SWAP" -> MixSwap(st, mix)
          [] mix.command = "MIX_ADD" ->
               Commit(st, st.n, {mix.ch_dst}, {mix.ch_dst, mix.ch_src},
                      [ch \in {mix.ch_dst} |->
                          FAdd(lane(mix.ch_dst), FMul(lane(mix.ch_src), mix.vol))])
          [] mix.command = "MIX_VOLUME" -> MixVolume(st, mix)
          [] mix.command = "MIX_LIMIT" ->
               Commit(st, st.n, sel, sel,
                      [ch \in sel |-> FLimit(lane(ch), 32767 * mix.vol, (-32768) * mix.vol)])
          [] mix.command = "MIX_UPMIX" -> MixUpmix(st, mix)
          [] mix.command = "MIX_DOWNMIX" -> MixDownmix(st, mix)
          [] mix.command = "MIX_KILLMIX" ->
               [st EXCEPT !.n = mix.ch_dst]
          [] mix.command = "MIX_FADE" ->
               LET g == get_fade_gain(mix, current_subpos)
               IN  IF ~g.ok THEN st
                   ELSE Commit(st, st.n, sel, sel, [ch \in sel |-> FMul(lane(ch), g.cur_vol)])
          [] OTHER -> st

\* the chain walked from its last command to command m
RECURSIVE ApplyChain_backward(_, _, _, _)
ApplyChain_backward(st, d, m, current_subpos) ==
    IF m > d.mixing_count THEN st
    ELSE ApplyMix(ApplyChain_backward(st, d, m + 1, current_subpos),
                  d.mixing_chain[m], current_subpos)

\* the loop of lines 264-359 from command m (1-based) on
RECURSIVE ApplyChain(_, _, _, _)
ApplyChain(st, d, m, current_subpos) ==
    IF m > d.mixing_count THEN st
    ELSE ApplyChain(ApplyMix(st, d.mixing_chain[m], current_subpos), d, m + 1,
                    current_subpos)

\* lines 257-262: the native lanes of sample s copied into the row
RowCopy(st, vs, outbuf, s) ==
    Commit(st, vs.channels, 0..(vs.channels - 1), {},
           [ch \in 0..(vs.channels - 1) |->
               IF s * vs.channels + ch < Len(outbuf)
               THEN outbuf[s * vs.channels + ch + 1] * VolOne
               ELSE GARBAGE])

\* the row after each command from m on: the row before command m first
RECURSIVE RowSteps(_, _, _, _)
RowSteps(st, d, m, current_subpos) ==
    IF m > d.mixing_count THEN <<st>>
    ELSE <<st>> \o RowSteps(ApplyMix(st, d.mixing_chain[m], current_subpos), d, m + 1,
                            current_subpos)

\* the loop of lines 255-363 from sample s on
RECURSIVE MixRows(_, _, _, _, _, _, _)
MixRows(st, d, vs, outbuf, sample_count, current_pos, s) ==
    IF s >= sample_count THEN st
    ELSE LET copied == RowCopy(st, vs, outbuf, s)
             done   == ApplyChain(copied, d, 1, current_pos + s)
         IN  MixRows([done EXCEPT !.off = @ + done.n, !.widths = Append(@, done.n)],
                     d, vs, outbuf, sample_count, current_pos, s + 1)

\* the final pass without the clamp: the low 16 bits of the cast
MixCopyOut_wrap(mixbuf, outbuf, total, sat) ==
    [i \in 1..Len(outbuf) |->
        IF i <= total
        THEN (IF Rd(mixbuf, i - 1) = GARBAGE THEN INDET
              ELSE ((Cast32(mixbuf[i], sat) + 32768) % 65536) - 32768)
        ELSE outbuf[i]]

\* the final pass of lines 366-377
MixCopyOut(mixbuf, outbuf, total, sat) ==
    [i \in 1..Len(outbuf) |->
        IF i <= total
        THEN (IF Rd(mixbuf, i - 1) = GARBAGE THEN INDET
              ELSE clamp16(Cast32(mixbuf[i], sat)))
        ELSE outbuf[i]]

(***************************************************************************)
(* mix_vgmstream.  Returns what the caller's buffer can hold afterwards    *)
(* (outbufs: one buffer for each outcome of the cast of line 376, a single *)
(* one when no working value is outside int32_t) and what the call did:    *)
(* ran (whether the rows were processed), widths, oob (a mixbuf or outbuf  *)
(* access outside the allocation), back, max_lane, and mixbuf (the working *)
(* buffer as the rows left it, empty when they did not run).               *)
(*                                                                         *)
(* What the call leaves in mixbuf is not kept from one call to the next:   *)
(* a call sees the floats it has not written itself as indeterminate       *)
(* (GARBAGE), whether they are fresh from realloc or left by an earlier    *)
(* block.  The state a call works on is the local st.buf.                  *)
(***************************************************************************)
MixSkipped(outbuf) ==
    [outbufs |-> {outbuf}, ran |-> FALSE, widths |-> << >>,
     oob |-> FALSE, back |-> FALSE, max_lane |-> -1, mixbuf |-> << >>]

\* what a call returns whose rows ended in st: the final pass of lines
\* 366-377 over the first total entries, with either outcome of the cast
MixDone(st, outbuf, total) ==
    [outbufs  |-> {MixCopyOut(st.buf, outbuf, total, sat) : sat \in BOOLEAN},
     ran      |-> TRUE,
     widths   |-> st.widths,
     oob      |-> st.oob \/ total > Len(st.buf) \/ total > Len(outbuf),
     back     |-> st.back,
     max_lane |-> st.max_lane,
     mixbuf   |-> st.buf]

mix_vgmstream_always(d, vs, outbuf, sample_count) ==
    IF d = NULL THEN MixSkipped(outbuf)
    ELSE LET current_pos == get_current_pos(vs)
             st0 == [buf |-> d.mixbuf, off |-> 0, n |-> vs.channels, oob |-> FALSE,
                     back |-> FALSE, max_lane |-> -1, widths |-> << >>]
         IN  CHOOSE r \in {MixDone(st, outbuf, sample_count * d.output_channels) :
                              st \in {MixRows(st0, d, vs, outbuf, sample_count,
                                               current_pos, 0)}} : TRUE

mix_vgmstream(d, vs, outbuf, sample_count) ==
    IF d = NULL THEN MixSkipped(outbuf)
    ELSE IF ~d.mixing_on \/ d.mixing_count = 0 THEN MixSkipped(outbuf)
    ELSE LET current_pos == get_current_pos(vs)
         IN  IF ~is_active(d, current_pos, current_pos + sample_count)
             THEN MixSkipped(outbuf)
             ELSE LET st0 == [buf |-> d.mixbuf, off |-> 0, n |-> vs.channels,
                              oob |-> FALSE, back |-> FALSE, max_lane |-> -1,
                              widths |-> << >>]
                  IN  CHOOSE r \in {MixDone(st, outbuf, sample_count * d.output_channels) :
                                       st \in {MixRows(st0, d, vs, outbuf, sample_count,
                                                        current_pos, 0)}} : TRUE

(***************************************************************************)
(* The state machine.                                                      *)
(*   vgmstream  the fields of VGMSTREAM the engine reads or bumps          *)
(*   data       vgmstream->mixing_data: a mixing_data record, NULL when    *)
(*              mixing_init's calloc failed, FAULT once the process was    *)
(*              stopped by a trap                                          *)
(*   virtual    whether the virtual-channel adjustment was applied         *)
(*   last       the last call made and what it returned or did             *)
(***************************************************************************)
VARIABLES vgmstream, data, virtual, last

vars == <<vgmstream, data, virtual, last>>

\* the largest block the decoder asks for
MaxSamples == 2

InitStreams ==
    [channels          : 1..MaxStreamChannels,
     loop_flag         : BOOLEAN,
     loop_start_sample : {1},
     loop_end_sample   : {3},
     sample_rate       : {1},
     config_loop_count : {1},
     current_sample    : {0},
     loop_count        : {0},
     channel_layout    : {1}]

Init ==
    /\ vgmstream \in InitStreams
    /\ data \in {mixing_init(vgmstream.channels), NULL}
    /\ virtual = FALSE
    /\ last = [op |-> "mixing_init"]

\* the channel count of the state when the configuration phase starts
InitialChannels == vgmstream.channels + (IF virtual THEN 1 ELSE 0)

Live == data # FAULT

\* The configuration phase as the model drives it: command by command while
\* the chain is shorter than limit; calls on a state that rejects them
\* (no state, activated) are always made.
MayConfigure(limit) ==
    /\ Live
    /\ IF data = NULL THEN TRUE
       ELSE IF data.mixing_on THEN TRUE
       ELSE data.mixing_count < limit

Appended(d0, d1) ==
    IF d0 = NULL \/ d1 = FAULT THEN FALSE
    ELSE d1.mixing_count > d0.mixing_count

\* a constructor or macro call with arguments args that returns state d1
Configure(op, args, d1) ==
    /\ data' = d1
    /\ last' = IF d1 = FAULT THEN [op |-> op, fault |-> TRUE]
               ELSE IF Appended(data, d1) THEN [op |-> op, ok |-> TRUE, args |-> args]
               ELSE [op |-> "configure", ok |-> FALSE]
    /\ UNCHANGED <<vgmstream, virtual>>

\* A call of mixing_update_channel.  Its callers are outside this file: the
\* stream opener calls it once on the state it has just created, before any
\* command is appended and before activation.
UpdateChannel ==
    /\ Live
    /\ data # NULL
    /\ ~virtual
    /\ ~data.mixing_on
    /\ data.mixing_count = 0
    /\ data' = mixing_update_channel(data)
    /\ virtual' = TRUE
    /\ last' = [op |-> "mixing_update_channel"]
    /\ UNCHANGED vgmstream

PushSwap(D) ==
    \E ch_dst \in D, ch_src \in D :
        Configure("mixing_push_swap", <<ch_dst, ch_src>>,
                  mixing_push_swap(data, ch_dst, ch_src))

PushAdd(D, V) ==
    \E ch_dst \in D, ch_src \in D, volume \in V :
        Configure("mixing_push_add", <<ch_dst, ch_src, volume>>,
                  mixing_push_add(data, ch_dst, ch_src, volume))

PushVolume(D, V) ==
    \E ch_dst \in D, volume \in V :
        Configure("mixing_push_volume", <<ch_dst, volume>>,
                  mixing_push_volume(data, ch_dst, volume))

PushLimit(D, V) ==
    \E ch_dst \in D, volume \in V :
        Configure("mixing_push_limit", <<ch_dst, volume>>,
                  mixing_push_limit(data, ch_dst, volume))

PushUpmix(D) ==
    \E ch_dst \in D :
        Configure("mixing_push_upmix", <<ch_dst>>, mixing_push_upmix(data, ch_dst))

PushDownmix(D) ==
    \E ch_dst \in D :
        Configure("mixing_push_downmix", <<ch_dst>>, mixing_push_downmix(data, ch_dst))

PushKillmix(D) ==
    \E ch_dst \in D :
        Configure("mixing_push_killmix", <<ch_dst>>, mixing_push_killmix(data, ch_dst))

\* F: a set of [vol_start, vol_end, shape, time_pre, time_start, time_end, time_post]
PushFade(D, F) ==
    \E ch_dst \in D, f \in F :
        Configure("mixing_push_fade", [ch_dst |-> ch_dst, fade |-> f],
                  mixing_push_fade(data, ch_dst, f.vol_start, f.vol_end, f.shape,
                                   f.time_pre, f.time_start, f.time_end, f.time_post))

MacroVolume(V, M) ==
    \E volume \in V, mask \in M :
        Configure("mixing_macro_volume", <<volume, mask>>,
                  mixing_macro_volume(data, volume, mask))

MacroTrack(M) ==
    \E mask \in M :
        Configure("mixing_macro_track", <<mask>>, mixing_macro_track(data, mask))

MacroLayer(D, M, Modes) ==
    \E max \in D, mask \in M, mode \in Modes, traps \in BOOLEAN :
        Configure("mixing_macro_layer", <<max, mask, mode>>,
                  mixing_macro_layer(data, max, mask, mode, traps))

\* a loop-driven macro call that returns r = [data, vs]
ConfigureLoop(op, args, r) ==
    /\ data' = r.data
    /\ vgmstream' = r.vs
    /\ last' = IF Appended(data, r.data) THEN [op |-> op, ok |-> TRUE, args |-> args]
               ELSE [op |-> "configure", ok |-> FALSE]
    /\ UNCHANGED virtual

MacroCrosstrack(D) ==
    \E max \in D :
        ConfigureLoop("mixing_macro_crosstrack", <<max>>,
                      mixing_macro_crosstrack(data, vgmstream, max))

MacroCrosslayer(D, Modes) ==
    \E max \in D, mode \in Modes :
        ConfigureLoop("mixing_macro_crosslayer", <<max, mode>>,
                      mixing_macro_crosslayer(data, vgmstream, max, mode))

\* activate/resize for a block size of N, with either outcome of realloc
Setup(N) ==
    /\ Live
    /\ \E max_sample_count \in N, alloc_ok \in BOOLEAN :
           LET r == mixing_setup(data, vgmstream, max_sample_count, alloc_ok)
           IN  /\ data' = r.data
               /\ vgmstream' = r.vs
               /\ last' = [op |-> "mixing_setup", ok |-> max_sample_count > 0 /\ alloc_ok]
    /\ UNCHANGED virtual

Info ==
    /\ Live
    /\ last' = [op |-> "mixing_info", out |-> mixing_info(data, vgmstream)]
    /\ UNCHANGED <<vgmstream, data, virtual>>

\* The decoder's buffer for a block: sample_count frames of input_channels
\* samples (the width mixing_info reports), every sample different.
InputChannels ==
    IF data = NULL THEN vgmstream.channels
    ELSE Max(vgmstream.channels, data.output_channels)

DecodedBuffer(len) ==
    [k \in 1..len |-> IF k % 2 = 1 THEN 100 * k ELSE -100 * k]

\* where the decoder may be when it hands over a block: <<current_sample,
\* loop_count>>
Positions == {<<0, 0>>, <<2, 0>>, <<2, 1>>}

\* One block: the decoder is at some position (kept by the decoder, so it is
\* an input of the call and recorded in last, not carried in vgmstream) and
\* calls mix on its buffer.  The block is no larger than the size given at
\* activation.
Mix ==
    /\ Live
    /\ \E sample_count \in 1..MaxSamples, pos \in Positions :
           LET vs1    == [vgmstream EXCEPT !.current_sample = pos[1], !.loop_count = pos[2]]
               outbuf == DecodedBuffer(sample_count * InputChannels)
           IN  /\ IF data = NULL THEN TRUE
                  ELSE IF ~data.mixing_on THEN TRUE
                  ELSE sample_count * data.mixing_channels <= Len(data.mixbuf)
               /\ data' = data
               /\ \E r \in {mix_vgmstream(data, vs1, outbuf, sample_count)} :
                      \E written \in r.outbufs :
                          last' = [op |-> "mix_vgmstream", sample_count |-> sample_count,
                                   current_sample |-> pos[1], loop_count |-> pos[2],
                                   inbuf |-> outbuf, outbuf |-> written, ran |-> r.ran,
                                   widths |-> r.widths, oob |-> r.oob, back |-> r.back,
                                   max_lane |-> r.max_lane]
    /\ UNCHANGED <<vgmstream, virtual>>

(***************************************************************************)
(* Spec: every call, with small argument sets.                             *)
(***************************************************************************)
\* Calls on a state that rejects every append (no state, activated) are
\* made with fewer arguments.
Late == IF data = NULL THEN TRUE ELSE data.mixing_on

Channels == IF Late THEN {-1, 1} ELSE -1..VGMSTREAM_MAX_CHANNELS

Masks == IF Late THEN {0, 1} ELSE 0..((2 ^ VGMSTREAM_MAX_CHANNELS) - 1)

Modes == IF Late THEN {"e"} ELSE {"b", "e", "v"}

Fade(vol_start, vol_end, shape, time_pre, time_start, time_end, time_post) ==
    [vol_start |-> vol_start, vol_end |-> vol_end, shape |-> shape, time_pre |-> time_pre,
     time_start |-> time_start, time_end |-> time_end, time_post |-> time_post]

Fades ==
    {Fade(DblOne, 0, "T", -1, 1, 2, -1),
     Fade(0, DblOne, "(", -1, 0, 1, -1),
     Fade(DblHalf, DblOne, "{", 0, 0, 1, 2),
     Fade(DblOne, 0, "T", 2, 1, 0, -1)}

Next ==
    \/ UpdateChannel
    \/ MayConfigure(MaxChain) /\ PushSwap(Channels)
    \/ MayConfigure(MaxChain) /\ PushAdd(Channels, {0, 1, DblOne})
    \/ MayConfigure(MaxChain) /\ PushVolume(Channels, {DblHalf, DblOne, DblOne + 1})
    \/ MayConfigure(MaxChain) /\ PushLimit(Channels, {-1, DblHalf, DblOne, DblOne + 1})
    \/ MayConfigure(MaxChain) /\ PushUpmix(Channels)
    \/ MayConfigure(MaxChain) /\ PushDownmix(Channels)
    \/ MayConfigure(MaxChain) /\ PushKillmix(Channels)
    \/ MayConfigure(MaxChain) /\ PushFade(Channels, Fades)
    \/ MayConfigure(MaxChain) /\ MacroVolume({DblHalf, DblOne}, Masks)
    \/ MayConfigure(MaxChain) /\ MacroTrack(Masks)
    \/ MayConfigure(MaxChain) /\ MacroLayer(Channels, Masks, Modes)
    \/ MayConfigure(MaxChain) /\ MacroCrosstrack(Channels)
    \/ MayConfigure(MaxChain) /\ MacroCrosslayer(Channels, Modes)
    \/ Setup(0..MaxSamples)
    \/ Info
    \/ Mix

Spec == Init /\ [][Next]_vars

(***************************************************************************)
(* SpecFade: a stereo stream on which only Fades are pushed, up to         *)
(* MaxFades of them, with every timing from -1..MaxTime (start and end     *)
(* from 0..MaxTime), and which may be activated at any point.              *)
(***************************************************************************)
MaxFades == 2

MaxTime == 1

FadeArgs ==
    {Fade(v[1], v[2], "T", time_pre, time_start, time_end, time_post) :
        v \in {<<DblOne, 0>>, <<0, DblOne>>},
        time_pre \in -1..MaxTime, time_start \in 0..MaxTime,
        time_end \in 0..MaxTime, time_post \in -1..MaxTime}

InitFade ==
    /\ Init
    /\ vgmstream.channels = 2
    /\ ~vgmstream.loop_flag
    /\ data # NULL

NextFade ==
    \/ MayConfigure(MaxFades) /\ PushFade({-1, 0}, FadeArgs)
    \/ Setup({MaxSamples})

SpecFade == InitFade /\ [][NextFade]_vars

(***************************************************************************)
(* SpecSkip: a stereo stream on which up to MaxFades commands are pushed,  *)
(* each a Fade of all channels (every timing of SpecFade) or a Volume;     *)
(* then it is activated and mixes blocks.  The configuration phase ends    *)
(* with the activation.                                                    *)
(***************************************************************************)
SkipFades == {f \in FadeArgs : f.vol_start = DblOne}

Building(limit) ==
    /\ Live
    /\ data # NULL
    /\ ~data.mixing_on
    /\ data.mixing_count < limit

NextSkip ==
    \/ Building(MaxFades) /\ PushFade({-1}, SkipFades)
    \/ Building(MaxFades) /\ PushVolume({-1}, {DblHalf})
    \/ Setup({MaxSamples})
    \/ Mix

SpecSkip == InitFade /\ [][NextSkip]_vars

(***************************************************************************)
(* SpecCap: the chain is filled with Volume commands until CapSlack slots  *)
(* are left, and then every constructor is called.                         *)
(***************************************************************************)
Filling ==
    IF data = NULL THEN FALSE
    ELSE data.mixing_count < VGMSTREAM_MAX_MIXING - CapSlack

NearFull ==
    IF data = NULL THEN FALSE
    ELSE data.mixing_count >= VGMSTREAM_MAX_MIXING - CapSlack

NextCap ==
    \/ Filling /\ PushVolume({-1}, {DblHalf})
    \/ NearFull /\ PushSwap(Channels)
    \/ NearFull /\ PushAdd(Channels, {DblOne})
    \/ NearFull /\ PushVolume(Channels, {DblHalf})
    \/ NearFull /\ PushLimit(Channels, {DblHalf})
    \/ NearFull /\ PushUpmix(Channels)
    \/ NearFull /\ PushDownmix(Channels)
    \/ NearFull /\ PushKillmix(Channels)
    \/ NearFull /\ PushFade(Channels, Fades)

SpecCap == Init /\ [][NextCap]_vars

(***************************************************************************)
(* SpecGain: the fade evaluator on its own.  A one-channel stream holds    *)
(* one Fade, pushed with every ordered timing from -1..MaxGainTime, a few  *)
(* volume pairs and every shape code, and is activated; get_fade_gain is   *)
(* then applied to it at every position the execution loop can be at.      *)
(***************************************************************************)
MaxGainTime == 3

GainVolumes == {<<DblOne, 0>>, <<0, DblOne>>, <<DblOne \div 4, DblOne>>, <<DblHalf, DblHalf>>}

GainShapes == {"T", "X", "E", "L", "H", "Q", "p", "P", "{", "("}

\* the last one is a long fade-out, evaluated half way
GainFades ==
    {Fade(v[1], v[2], shape, time_pre, time_start, time_end, time_post) :
        v \in GainVolumes, shape \in GainShapes,
        time_pre \in -1..MaxGainTime, time_start \in 0..MaxGainTime,
        time_end \in 0..MaxGainTime, time_post \in -1..MaxGainTime}
    \cup {Fade(DblOne, 0, "T", -1, 0, 100, -1)}

GainPositions == 0..(MaxGainTime + 1) \cup {50}

InitGain ==
    /\ vgmstream \in InitStreams
    /\ vgmstream.channels = 1
    /\ ~vgmstream.loop_flag
    /\ \E f \in GainFades :
           LET d == mixing_push_fade(mixing_init(vgmstream.channels), -1,
                                     f.vol_start, f.vol_end, f.shape,
                                     f.time_pre, f.time_start, f.time_end, f.time_post)
           IN  /\ d.mixing_count = 1
               /\ data = mixing_setup(d, vgmstream, MaxSamples, TRUE).data
    /\ virtual = FALSE
    /\ last = [op |-> "mixing_setup", ok |-> TRUE]

\* the call of line 341 for one command of the chain at one position
FadeGain(P) ==
    /\ Live
    /\ \E m \in 1..data.mixing_count, current_subpos \in P :
           /\ data.mixing_chain[m].command = "MIX_FADE"
           /\ last' = [op |-> "get_fade_gain", mix |-> data.mixing_chain[m],
                       current_subpos |-> current_subpos,
                       out |-> get_fade_gain(data.mixing_chain[m], current_subpos)]
    /\ UNCHANGED <<vgmstream, data, virtual>>

NextGain == FadeGain(GainPositions)

SpecGain == InitGain /\ [][NextGain]_vars

(***************************************************************************)
(* SpecLayer: the layer macro on a fresh stream of 1..MaxStreamChannels    *)
(* channels, with every max, every mask over one bit more than the stream  *)
(* can have channels and every mode; then the stream is activated and      *)
(* mixes blocks.                                                           *)
(***************************************************************************)
LayerMasks == 0..((2 ^ (MaxStreamChannels + 1)) - 1)

InitLayer ==
    /\ Init
    /\ ~vgmstream.loop_flag
    /\ data # NULL

NextLayer ==
    \/ Building(MaxChain)
           /\ MacroLayer(1..VGMSTREAM_MAX_CHANNELS, LayerMasks, {"b", "e", "v"})
    \/ Setup({MaxSamples})
    \/ Mix

SpecLayer == InitLayer /\ [][NextLayer]_vars

(***************************************************************************)
(* SpecTrack: the track macro with every mask, on a fresh stream of        *)
(* 1..MaxStreamChannels channels or after up to MaxChain Upmix commands;   *)
(* then the stream is activated and mixes blocks.                          *)
(***************************************************************************)
TrackMasks == 0..((2 ^ VGMSTREAM_MAX_CHANNELS) - 1)

InitTrack ==
    /\ Init
    /\ ~vgmstream.loop_flag
    /\ data # NULL

NextTrack ==
    \/ Building(MaxChain) /\ PushUpmix(0..VGMSTREAM_MAX_CHANNELS)
    \/ Building(MaxChain + 1) /\ MacroTrack(TrackMasks)
    \/ Setup({MaxSamples})
    \/ Mix

SpecTrack == InitTrack /\ [][NextTrack]_vars

(***************************************************************************)
(* SpecCross: the two loop-driven macros on a fresh stream of              *)
(* 1..MaxStreamChannels channels, looped or not, with a loop shorter or    *)
(* longer than the transition window and a loop-repeat count below or      *)
(* above the track counts; then the stream is activated and mixes blocks.  *)
(***************************************************************************)
CrossStreams ==
    {[vs EXCEPT !.loop_end_sample = e, !.config_loop_count = c] :
        vs \in InitStreams, e \in {3, 20}, c \in {1, 3}}

InitCross ==
    /\ vgmstream \in CrossStreams
    /\ data = mixing_init(vgmstream.channels)
    /\ virtual = FALSE
    /\ last = [op |-> "mixing_init"]

NextCross ==
    \/ Building(MaxChain) /\ MacroCrosstrack(0..VGMSTREAM_MAX_CHANNELS)
    \/ Building(MaxChain) /\ MacroCrosslayer(0..VGMSTREAM_MAX_CHANNELS, {"b", "e", "v"})
    \/ Setup({MaxSamples})
    \/ Mix

SpecCross == InitCross /\ [][NextCross]_vars

(***************************************************************************)
(* SpecRow: a stereo stream on which up to MaxRow commands are pushed      *)
(* (Swap, Add, Volume, Upmix, Downmix); then it is activated, with either  *)
(* outcome of the allocation, is queried, and mixes blocks of several      *)
(* kinds of samples.  MixRow is the inner loop of mix_vgmstream on the     *)
(* first sample of a block, with the row recorded after every command.     *)
(***************************************************************************)
MaxRow == 2

\* a volume that takes a full-scale sample beyond the range of int32_t
HugeVolume == DblOne * 200000

\* the decoder's samples: small ones of both signs, small positive ones,
\* full scale, odd ones
RowBuffers(len) ==
    {DecodedBuffer(len),
     [k \in 1..len |-> 100 * k],
     [k \in 1..len |-> IF k % 2 = 1 THEN 32767 ELSE -32768],
     [k \in 1..len |-> IF k % 2 = 1 THEN 101 ELSE -101]}

\* the command pushed now is the last one of the chain
LastSlot(limit) ==
    /\ Building(limit)
    /\ data.mixing_count = limit - 1

InitRow ==
    /\ Init
    /\ vgmstream.channels = 2
    /\ ~vgmstream.loop_flag
    /\ data # NULL

MixRow ==
    /\ Live
    /\ data # NULL
    /\ data.mixing_on
    /\ data.mixing_count > 0
    /\ data.mixing_channels <= Len(data.mixbuf)
    /\ \E outbuf \in RowBuffers(InputChannels) :
           LET current_pos == get_current_pos(vgmstream)
               st0 == [buf |-> data.mixbuf, off |-> 0, n |-> vgmstream.channels,
                       oob |-> FALSE, back |-> FALSE, max_lane |-> -1, widths |-> << >>]
           IN  /\ is_active(data, current_pos, current_pos + 1)
               /\ last' = [op |-> "mix_row", inbuf |-> outbuf,
                           steps |-> RowSteps(RowCopy(st0, vgmstream, outbuf, 0),
                                              data, 1, current_pos)]
    /\ UNCHANGED <<vgmstream, data, virtual>>

MixBlock ==
    /\ Live
    /\ \E sample_count \in 1..MaxSamples :
           \E outbuf \in RowBuffers(sample_count * InputChannels) :
               /\ IF data = NULL THEN TRUE
                  ELSE IF ~data.mixing_on THEN TRUE
                  ELSE sample_count * data.mixing_channels <= Len(data.mixbuf)
               /\ data' = data
               /\ \E r \in {mix_vgmstream(data, vgmstream, outbuf, sample_count)} :
                      \E written \in r.outbufs :
                          last' = [op |-> "mix_vgmstream", sample_count |-> sample_count,
                                   current_sample |-> vgmstream.current_sample,
                                   loop_count |-> vgmstream.loop_count,
                                   inbuf |-> outbuf, outbuf |-> written, ran |-> r.ran,
                                   widths |-> r.widths, oob |-> r.oob, back |-> r.back,
                                   max_lane |-> r.max_lane, mixbuf |-> r.mixbuf]
    /\ UNCHANGED <<vgmstream, virtual>>

NextRow ==
    \/ Building(MaxRow) /\ PushSwap(0..2)
    \/ Building(MaxRow) /\ PushAdd(0..1, {DblOne})
    \/ Building(MaxRow) /\ PushVolume(-1..1, {DblHalf, 2 * DblOne})
    \/ LastSlot(MaxRow) /\ PushVolume({-1}, {HugeVolume})
    \/ Building(MaxRow) /\ PushUpmix(0..3)
    \/ Building(MaxRow) /\ PushDownmix(0..2)
    \/ Setup({MaxSamples})
    \/ Info
    \/ MixRow
    \/ MixBlock

SpecRow == InitRow /\ [][NextRow]_vars

(***************************************************************************)
(* What the properties below are stated with.                              *)
(***************************************************************************)
\* data is a mixing_data record (not NULL, not stopped)
IsState(d) == d # NULL /\ d # FAULT

\* the channel count after one command, from the count n before it
CountStep(mix, n) ==
    CASE mix.command = "MIX_UPMIX"   -> n + 1
      [] mix.command = "MIX_DOWNMIX" -> n - 1
      [] mix.command = "MIX_KILLMIX" -> mix.ch_dst
      [] OTHER                       -> n

\* the channel count after the first k commands of chain, from n0
RECURSIVE CountAfter(_, _, _)
CountAfter(chain, k, n0) ==
    IF k = 0 THEN n0 ELSE CountStep(chain[k], CountAfter(chain, k - 1, n0))

\* the indices of one command are valid for the running count n
ValidAt(mix, n) ==
    CASE mix.command \in {"MIX_SWAP", "MIX_ADD"} ->
             /\ 0 <= mix.ch_dst /\ mix.ch_dst < n
             /\ 0 <= mix.ch_src /\ mix.ch_src < n
      [] mix.command \in {"MIX_VOLUME", "MIX_LIMIT", "MIX_FADE"} ->
             mix.ch_dst < n
      [] mix.command = "MIX_UPMIX" ->
             0 <= mix.ch_dst /\ mix.ch_dst <= n
      [] mix.command = "MIX_DOWNMIX" ->
             0 <= mix.ch_dst /\ mix.ch_dst < n /\ n >= 2
      [] mix.command = "MIX_KILLMIX" ->
             0 < mix.ch_dst /\ mix.ch_dst < n
      [] OTHER -> FALSE

\* a state on which a valid command is appended: not activated, not full
Open(d) ==
    IF IsState(d) THEN ~d.mixing_on /\ d.mixing_count < d.mixing_size ELSE FALSE

\* the channel arguments the constructors are tried with in every state
AnyChannel == -1..(VGMSTREAM_MAX_CHANNELS + 1)

\* the last call was constructor op and it stored its command
Stored(op) ==
    /\ last.op = op
    /\ IF last.op = op THEN last.ok ELSE FALSE

\* the same of the step's second state
StoredNext(op) ==
    /\ last'.op = op
    /\ IF last'.op = op THEN last'.ok ELSE FALSE

\* the last call was a Fade push that stored its command
FadeStored ==
    /\ last.op = "mixing_push_fade"
    /\ last.ok

\* the same of the step's second state
FadeStoredNext ==
    /\ last'.op = "mixing_push_fade"
    /\ last'.ok

(***************************************************************************)
(* C1: a constructor call that is rejected (nothing is appended: invalid   *)
(* index or timing, chain full, state activated) leaves the whole state    *)
(* as it was, the time_post of an earlier Fade of the same selector        *)
(* included.                                                               *)
(***************************************************************************)
C1_RejectedCallChangesNothing ==
    [][last'.op = "configure" => data' = data]_vars

(***************************************************************************)
(* C2: once the state is activated, mixing_on stays TRUE and mixing_count, *)
(* output_channels and mixing_channels keep their values, whatever call is *)
(* made next.                                                              *)
(***************************************************************************)
C2_ActivationFreezes ==
    [][IF IsState(data)
       THEN data.mixing_on
                => /\ IsState(data')
                   /\ data'.mixing_on
                   /\ data'.mixing_count = data.mixing_count
                   /\ data'.output_channels = data.output_channels
                   /\ data'.mixing_channels = data.mixing_channels
       ELSE TRUE]_vars

\* an activated state with commands on which a late constructor or macro
\* call has just been rejected
C2_Witness ==
    /\ IsState(data)
    /\ IF IsState(data) THEN data.mixing_on /\ data.mixing_count > 0 ELSE FALSE
    /\ last.op = "configure"

(***************************************************************************)
(* C3: on a stream whose native channel count is the state's initial       *)
(* channel count, every row of a mix call ends the chain with              *)
(* output_channels lanes, so the rows lie output_channels apart; no row    *)
(* touches a lane below its own start; and the final pass reads            *)
(* sample_count * output_channels values, all inside the buffers and all   *)
(* written by this call.                                                   *)
(***************************************************************************)
C3_RowsEndAtOutputChannels ==
    (last.op = "mix_vgmstream" /\ ~virtual)
        => (last.ran
                => /\ Len(last.widths) = last.sample_count
                   /\ \A s \in 1..Len(last.widths) : last.widths[s] = data.output_channels
                   /\ ~last.back
                   /\ ~last.oob
                   /\ \A i \in 1..(last.sample_count * data.output_channels) :
                          last.outbuf[i] # INDET)

\* a block of two rows mixed through a chain that changes the width
C3_Witness ==
    /\ last.op = "mix_vgmstream"
    /\ ~virtual
    /\ IF last.op = "mix_vgmstream"
       THEN /\ last.ran
            /\ last.sample_count = 2
            /\ data.output_channels # vgmstream.channels
            /\ data.mixing_count >= 3
       ELSE FALSE

(***************************************************************************)
(* C4: every stored command has indices valid for the running channel      *)
(* count at its position (the initial count replayed through the Upmix,    *)
(* Downmix and Killmix commands before it): Swap and Add indices in        *)
(* [0, n); a Volume, Limit or Fade target negative or below n; an Upmix    *)
(* target in [0, n]; a Downmix target in [0, n) with n >= 2; a Killmix     *)
(* target in (0, n).                                                       *)
(***************************************************************************)
C4_StoredIndicesValid ==
    IsState(data)
        => \A k \in 1..data.mixing_count :
               ValidAt(data.mixing_chain[k],
                       CountAfter(data.mixing_chain, k - 1, InitialChannels))

\* a chain that widens, adds and cuts (what the layer macro builds)
C4_Witness ==
    IF IsState(data)
    THEN /\ \E k \in 1..data.mixing_count : data.mixing_chain[k].command = "MIX_UPMIX"
         /\ \E k \in 1..data.mixing_count : data.mixing_chain[k].command = "MIX_ADD"
         /\ data.mixing_chain[data.mixing_count].command = "MIX_KILLMIX"
    ELSE FALSE

(***************************************************************************)
(* C5: a mix call on a state that is not activated, or whose chain is      *)
(* empty, leaves the first native channels * sample_count samples of the   *)
(* caller's buffer as they were.                                           *)
(***************************************************************************)
C5_InactiveMixKeepsSamples ==
    (last.op = "mix_vgmstream" /\ IsState(data))
        => ((~data.mixing_on \/ data.mixing_count = 0)
                => \A i \in 1..(vgmstream.channels * last.sample_count) :
                       last.outbuf[i] = last.inbuf[i])

\* a block of two rows handed to a state with commands that was never
\* activated
C5_Witness ==
    /\ last.op = "mix_vgmstream"
    /\ IsState(data)
    /\ IF last.op = "mix_vgmstream" /\ IsState(data)
       THEN ~data.mixing_on /\ data.mixing_count > 0 /\ last.sample_count = 2
       ELSE FALSE

(***************************************************************************)
(* C6: with an initial channel count between 1 and the ceiling,            *)
(* 1 <= output_channels <= mixing_channels <= ceiling always holds,        *)
(* mixing_channels is the largest value output_channels has had since      *)
(* initialization, and mixing_channels never decreases.                    *)
(***************************************************************************)
C6_PeakInvariant ==
    (IsState(data) /\ 1 <= InitialChannels /\ InitialChannels <= VGMSTREAM_MAX_CHANNELS)
        => /\ 1 <= data.output_channels
           /\ data.output_channels <= data.mixing_channels
           /\ data.mixing_channels <= VGMSTREAM_MAX_CHANNELS
           /\ \E k \in 0..data.mixing_count :
                  data.mixing_channels = CountAfter(data.mixing_chain, k, InitialChannels)
           /\ \A k \in 0..data.mixing_count :
                  data.mixing_channels >= CountAfter(data.mixing_chain, k, InitialChannels)
           /\ data.output_channels
                  = CountAfter(data.mixing_chain, data.mixing_count, InitialChannels)

C6_PeakNeverDecreases ==
    (IsState(data) /\ IsState(data')) => data'.mixing_channels >= data.mixing_channels

C6_ChannelCounts ==
    []C6_PeakInvariant /\ [][C6_PeakNeverDecreases]_vars

\* the peak is above both the initial and the final count
C6_Witness ==
    IF IsState(data)
    THEN /\ InitialChannels <= VGMSTREAM_MAX_CHANNELS
         /\ data.mixing_channels > InitialChannels
         /\ data.output_channels < InitialChannels
    ELSE FALSE

(***************************************************************************)
(* C7: 0 <= mixing_count <= 128 always, and an append on a chain of 128    *)
(* commands is rejected and leaves the chain exactly as it was: the same   *)
(* 128 commands in the same order.                                         *)
(***************************************************************************)
C7_CountInRange ==
    IsState(data) => 0 <= data.mixing_count /\ data.mixing_count <= VGMSTREAM_MAX_MIXING

C7_FullChainKept ==
    IF IsState(data)
    THEN data.mixing_count = VGMSTREAM_MAX_MIXING
             => /\ IsState(data')
                /\ data'.mixing_count = VGMSTREAM_MAX_MIXING
                /\ data'.mixing_chain = data.mixing_chain
    ELSE TRUE

C7_FullChainRejectsAppend ==
    []C7_CountInRange /\ [][C7_FullChainKept]_vars

(***************************************************************************)
(* C8: a Fade stored when the chain holds no earlier Fade of the same      *)
(* selector has time_pre = time_start if it was pushed with an open pre    *)
(* (negative) and vol_start = 1.0, and time_post = time_end if it was      *)
(* pushed with an open post and vol_end = 1.0.                             *)
(***************************************************************************)
C8_FirstFadeClamped ==
    FadeStored
        => LET a    == last.args.fade
               n    == data.mixing_count
               mix  == data.mixing_chain[n]
               none == \A k \in 1..(n - 1) :
                           ~ /\ data.mixing_chain[k].command = "MIX_FADE"
                             /\ data.mixing_chain[k].ch_dst = last.args.ch_dst
           IN  none
                   => /\ (a.time_pre < 0 /\ a.vol_start = DblOne)
                             => mix.time_pre = mix.time_start
                      /\ (a.time_post < 0 /\ a.vol_end = DblOne)
                             => mix.time_post = mix.time_end

(***************************************************************************)
(* C9: when a Fade with a closed pre (>= 0) is stored after a Fade of the  *)
(* same selector whose post is open, and the two neither overlap nor are   *)
(* out of order (the earlier one ends no later than this one starts, and   *)
(* this pre is no earlier than that end), the earlier Fade's time_post     *)
(* becomes the new pre, and the new Fade keeps its pre as given.           *)
(***************************************************************************)
C9_ClosedPreClosesOpenPost ==
    [][FadeStoredNext
          => LET a == last'.args.fade
                 p == get_last_fade(data, last'.args.ch_dst)
             IN  IF p = 0 THEN TRUE
                 ELSE LET prev == data.mixing_chain[p]
                      IN  (/\ a.time_pre >= 0
                           /\ prev.time_post < 0
                           /\ prev.time_end <= a.time_start
                           /\ a.time_pre >= prev.time_end)
                              => /\ data'.mixing_chain[p].time_post = a.time_pre
                                 /\ data'.mixing_chain[data'.mixing_count].time_pre
                                        = a.time_pre]_vars

(***************************************************************************)
(* C10: every stored Fade has time_start >= 0, time_start <= time_end,     *)
(* time_pre negative or <= time_start, and time_post negative or           *)
(* >= time_end, at all times (stitching included).                         *)
(***************************************************************************)
C10_StoredFadeOrdered ==
    IsState(data)
        => \A k \in 1..data.mixing_count :
               LET mix == data.mixing_chain[k]
               IN  mix.command = "MIX_FADE"
                       => /\ mix.time_start >= 0
                          /\ mix.time_start <= mix.time_end
                          /\ (mix.time_pre < 0 \/ mix.time_pre <= mix.time_start)
                          /\ (mix.time_post < 0 \/ mix.time_end <= mix.time_post)

\* a Fade pushed with an open pre has just been stitched to the one before
C10_Witness ==
    /\ FadeStored
    /\ IF FadeStored
       THEN /\ data.mixing_count = 2
            /\ last.args.fade.time_pre < 0
            /\ data.mixing_chain[2].time_pre >= 0
            /\ data.mixing_chain[1].ch_dst = data.mixing_chain[2].ch_dst
            /\ data.mixing_chain[1].time_post = data.mixing_chain[2].time_pre
            /\ data.mixing_chain[2].time_pre < data.mixing_chain[2].time_start
       ELSE FALSE

(***************************************************************************)
(* C11: on a state that is not activated and not full, Upmix(dst) is       *)
(* accepted exactly when 0 <= dst <= output_channels and                   *)
(* output_channels + 1 <= the channel ceiling; when accepted               *)
(* output_channels grows by exactly 1 and mixing_channels becomes the      *)
(* larger of its old value and the new output_channels; when rejected the  *)
(* state is as it was.  Stated of the constructor in every reachable state *)
(* and every argument, and of every Upmix step taken.                      *)
(***************************************************************************)
C11_UpmixInEveryState ==
    Open(data)
        => \A dst \in AnyChannel :
               LET d1  == mixing_push_upmix(data, dst)
                   acc == d1.mixing_count = data.mixing_count + 1
               IN  /\ acc <=> /\ 0 <= dst
                              /\ dst <= data.output_channels
                              /\ data.output_channels + 1 <= VGMSTREAM_MAX_CHANNELS
                   /\ acc => /\ d1.output_channels = data.output_channels + 1
                             /\ d1.mixing_channels
                                    = Max(data.mixing_channels, data.output_channels + 1)
                             /\ d1.mixing_chain[d1.mixing_count].command = "MIX_UPMIX"
                             /\ d1.mixing_chain[d1.mixing_count].ch_dst = dst
                   /\ ~acc => d1 = data

C11_UpmixStep ==
    StoredNext("mixing_push_upmix")
        => LET dst == last'.args[1]
           IN  /\ Open(data)
               /\ 0 <= dst
               /\ dst <= data.output_channels
               /\ data.output_channels + 1 <= VGMSTREAM_MAX_CHANNELS
               /\ data'.output_channels = data.output_channels + 1
               /\ data'.mixing_channels
                      = Max(data.mixing_channels, data.output_channels + 1)

C11_UpmixAccepted ==
    []C11_UpmixInEveryState /\ [][C11_UpmixStep]_vars

\* an Upmix has just been stored at the end of the row and raised the peak
C11_Witness ==
    /\ Stored("mixing_push_upmix")
    /\ IF Stored("mixing_push_upmix")
       THEN /\ last.args[1] = data.output_channels - 1
            /\ data.mixing_channels = InitialChannels + 1
       ELSE FALSE

(***************************************************************************)
(* C12: on a state that is not activated and not full, Downmix(dst) is     *)
(* accepted exactly when 0 <= dst < output_channels and                    *)
(* output_channels >= 2; when accepted output_channels shrinks by exactly  *)
(* 1 and mixing_channels keeps its value; when rejected the state is as it *)
(* was; output_channels is never 0.                                        *)
(***************************************************************************)
C12_DownmixInEveryState ==
    IsState(data)
        => /\ data.output_channels >= 1
           /\ Open(data)
                  => \A dst \in AnyChannel :
                         LET d1  == mixing_push_downmix(data, dst)
                             acc == d1.mixing_count = data.mixing_count + 1
                         IN  /\ acc <=> /\ 0 <= dst
                                        /\ dst < data.output_channels
                                        /\ data.output_channels >= 2
                             /\ acc => /\ d1.output_channels = data.output_channels - 1
                                       /\ d1.mixing_channels = data.mixing_channels
                                       /\ d1.mixing_chain[d1.mixing_count].command
                                              = "MIX_DOWNMIX"
                                       /\ d1.mixing_chain[d1.mixing_count].ch_dst = dst
                             /\ ~acc => d1 = data

C12_DownmixStep ==
    StoredNext("mixing_push_downmix")
        => LET dst == last'.args[1]
           IN  /\ Open(data)
               /\ 0 <= dst
               /\ dst < data.output_channels
               /\ data.output_channels >= 2
               /\ data'.output_channels = data.output_channels - 1
               /\ data'.mixing_channels = data.mixing_channels

C12_DownmixAccepted ==
    []C12_DownmixInEveryState /\ [][C12_DownmixStep]_vars

\* a Downmix has just been stored and left a single channel
C12_Witness ==
    /\ Stored("mixing_push_downmix")
    /\ IF Stored("mixing_push_downmix")
       THEN /\ data.output_channels = 1
            /\ data.mixing_channels = 2
       ELSE FALSE

(***************************************************************************)
(* C13: on a state that is not activated and not full, Killmix(k) is       *)
(* accepted exactly when 0 < k < output_channels; after acceptance         *)
(* output_channels = k, whatever the chain held before, and                *)
(* mixing_channels keeps its value; Killmix(0) and                         *)
(* Killmix(k >= output_channels) leave the state as it was.                *)
(***************************************************************************)
C13_KillmixInEveryState ==
    Open(data)
        => \A k \in AnyChannel :
               LET d1  == mixing_push_killmix(data, k)
                   acc == d1.mixing_count = data.mixing_count + 1
               IN  /\ acc <=> (0 < k /\ k < data.output_channels)
                   /\ acc => /\ d1.output_channels = k
                             /\ d1.mixing_channels = data.mixing_channels
                             /\ d1.mixing_chain[d1.mixing_count].command = "MIX_KILLMIX"
                             /\ d1.mixing_chain[d1.mixing_count].ch_dst = k
                   /\ (k = 0 \/ k >= data.output_channels) => d1 = data

C13_KillmixStep ==
    StoredNext("mixing_push_killmix")
        => LET k == last'.args[1]
           IN  /\ Open(data)
               /\ 0 < k
               /\ k < data.output_channels
               /\ data'.output_channels = k
               /\ data'.mixing_channels = data.mixing_channels

C13_KillmixAccepted ==
    []C13_KillmixInEveryState /\ [][C13_KillmixStep]_vars

\* a Killmix has just been stored and cut more than one channel
C13_Witness ==
    /\ Stored("mixing_push_killmix")
    /\ IF Stored("mixing_push_killmix")
       THEN /\ data.output_channels = last.args[1]
            /\ data.mixing_channels >= data.output_channels + 2
       ELSE FALSE

(***************************************************************************)
(* C14: the chain never holds a command that does nothing: no Swap with    *)
(* ch_dst = ch_src, no Add with volume 0, no Volume with volume 1.0, no    *)
(* Limit with volume 1.0 or a negative volume (the volumes as stored, that *)
(* is as the execution loop reads them).                                   *)
(***************************************************************************)
C14_NoNoOpStored ==
    IsState(data)
        => \A k \in 1..data.mixing_count :
               LET mix == data.mixing_chain[k]
               IN  /\ mix.command = "MIX_SWAP" => mix.ch_dst # mix.ch_src
                   /\ mix.command = "MIX_ADD" => mix.vol # 0
                   /\ mix.command = "MIX_VOLUME" => mix.vol # VolOne
                   /\ mix.command = "MIX_LIMIT" => (mix.vol # VolOne /\ mix.vol >= 0)

(***************************************************************************)
(* C15: for a stored Fade (pre <= start <= end <= post, a negative pre     *)
(* standing for minus infinity and a negative post for plus infinity) the  *)
(* evaluator reports "not applicable" exactly when the position is outside *)
(* [pre, post); otherwise it gives vol_start at every position below       *)
(* start, vol_end at every position from end on, and between start and end *)
(* a value between the two volumes.                                        *)
(***************************************************************************)
Evaluated ==
    last.op = "get_fade_gain"

InFadeRange(mix, pos) ==
    /\ (mix.time_pre < 0 \/ pos >= mix.time_pre)
    /\ (mix.time_post < 0 \/ pos < mix.time_post)

C15_GainByRegion ==
    Evaluated
        => LET mix == last.mix
               pos == last.current_subpos
               g   == last.out
               lo  == IF mix.vol_start < mix.vol_end THEN mix.vol_start ELSE mix.vol_end
               hi  == IF mix.vol_start < mix.vol_end THEN mix.vol_end ELSE mix.vol_start
           IN  /\ g.ok <=> InFadeRange(mix, pos)
               /\ (g.ok /\ pos < mix.time_start) => g.cur_vol = mix.vol_start
               /\ (g.ok /\ pos >= mix.time_end) => g.cur_vol = mix.vol_end
               /\ (g.ok /\ mix.time_start <= pos /\ pos < mix.time_end)
                      => (lo <= g.cur_vol /\ g.cur_vol <= hi)

\* a Fade closed on both sides, evaluated at its post (just outside)
C15_Witness ==
    /\ Evaluated
    /\ IF Evaluated
       THEN /\ last.mix.time_pre = 1
            /\ last.mix.time_start = 2
            /\ last.mix.time_end = 3
            /\ last.mix.time_post = 3
            /\ last.current_subpos = 3
            /\ ~last.out.ok
       ELSE FALSE

(***************************************************************************)
(* C16: for shape 'T' and for every shape code that is not one of the      *)
(* curves, the gain at a position pos with start <= pos < end is the       *)
(* linear interpolation                                                    *)
(*   vol_start + (vol_end - vol_start) * (pos - start) / (end - start)     *)
(* (to within the rounding of the arithmetic, two units of 1/VolOne), for  *)
(* a fade-in and a fade-out alike; it is vol_start at pos = start; and a   *)
(* 1.0 -> 0.0 fade over [0, 100) gives 0.5 at position 50.                 *)
(***************************************************************************)
Curves == {"E", "L", "H", "Q", "p", "P"}

C16_LinearGain ==
    Evaluated
        => LET mix == last.mix
               pos == last.current_subpos
               g   == last.out
               dur == mix.time_end - mix.time_start
               lin == mix.vol_start * dur + (mix.vol_end - mix.vol_start) * (pos - mix.time_start)
           IN  (mix.shape \notin Curves /\ mix.time_start <= pos /\ pos < mix.time_end)
                   => /\ g.ok
                      /\ g.cur_vol * dur - lin <= 2 * dur
                      /\ lin - g.cur_vol * dur <= 2 * dur
                      /\ pos = mix.time_start => g.cur_vol = mix.vol_start
                      /\ (/\ mix.vol_start = VolOne /\ mix.vol_end = 0
                          /\ mix.time_start = 0 /\ mix.time_end = 100 /\ pos = 50)
                             => g.cur_vol = Half

\* the long fade-out, evaluated half way
C16_Witness ==
    /\ Evaluated
    /\ IF Evaluated
       THEN /\ last.mix.shape = "T"
            /\ last.mix.vol_start = VolOne
            /\ last.mix.vol_end = 0
            /\ last.mix.time_start = 0
            /\ last.mix.time_end = 100
            /\ last.current_subpos = 50
            /\ last.out.ok
       ELSE FALSE

(***************************************************************************)
(* C17: a mix call on an activated state with a non-empty chain is skipped *)
(* (the buffer is left as it was) if and only if the chain holds only      *)
(* Fades and the call's range [current_pos, current_pos + sample_count)    *)
(* meets no Fade's window [pre, or 0 when open; post, or infinity when     *)
(* open); a chain with a command that is not a Fade is always processed.   *)
(***************************************************************************)
Mixed ==
    /\ last.op = "mix_vgmstream"
    /\ IsState(data)
    /\ IF IsState(data) THEN data.mixing_on /\ data.mixing_count > 0 ELSE FALSE

\* the block [from, to) meets the window of the Fade mix
MeetsWindow(mix, from, to) ==
    /\ to > (IF mix.time_pre < 0 THEN 0 ELSE mix.time_pre)
    /\ (mix.time_post < 0 \/ from < mix.time_post)

Selects(mask, ch) == Bit(IF mask = 0 THEN ALL_ONES ELSE mask, ch) = 1

\* how many channels below ch the mask selects
RankOf(mask, ch) == Cardinality({c \in 0..(ch - 1) : Selects(mask, c)})

\* the sum of row[ch + 1] over the channels ch of S
RECURSIVE SumOver(_, _)
SumOver(row, S) ==
    IF S = {} THEN 0
    ELSE LET ch == CHOOSE c \in S : TRUE
         IN  row[ch + 1] + SumOver(row, S \ {ch})

LayerFits(d, max) ==
    /\ max > 0
    /\ d.output_channels > max
    /\ d.output_channels + max <= VGMSTREAM_MAX_CHANNELS
    /\ d.mixing_count + max + d.output_channels + 1 <= d.mixing_size

C18_LayerLeavesMax ==
    Open(data)
        => \A max \in 1..VGMSTREAM_MAX_CHANNELS, mask \in LayerMasks, traps \in BOOLEAN :
               LayerFits(data, max)
                   => LET d1 == mixing_macro_layer(data, max, mask, "v", traps)
                      IN  IF IsState(d1) THEN d1.output_channels = max ELSE FALSE

C18_LanesAreSums ==
    (last.op = "mix_vgmstream" /\ IsState(data) /\ ~virtual)
        => \A max \in 1..VGMSTREAM_MAX_CHANNELS, mask \in LayerMasks :
               LET d0 == mixing_init(vgmstream.channels)
                   n  == vgmstream.channels
               IN  (/\ last.ran
                    /\ LayerFits(d0, max)
                    /\ data.mixing_chain
                           = mixing_macro_layer(d0, max, mask, "v", TRUE).mixing_chain)
                       => \A s \in 0..(last.sample_count - 1), i \in 0..(max - 1) :
                              last.outbuf[s * max + i + 1]
                                  = SumOver([c \in 1..n |-> last.inbuf[s * n + c]],
                                            {ch \in 0..(n - 1) :
                                                /\ Selects(mask, ch)
                                                /\ RankOf(mask, ch) % max = i})

C18_LayerDownmix ==
    C18_LayerLeavesMax /\ C18_LanesAreSums

\* three channels layered down to two lanes, two rows mixed
C18_Witness ==
    /\ last.op = "mix_vgmstream"
    /\ IsState(data)
    /\ IF last.op = "mix_vgmstream" /\ IsState(data)
       THEN /\ last.ran
            /\ last.sample_count = 2
            /\ vgmstream.channels = 3
            /\ data.mixing_chain
                   = mixing_macro_layer(mixing_init(3), 2, 7, "v", TRUE).mixing_chain
            /\ last.outbuf[1] = last.inbuf[1] + last.inbuf[3]
            /\ last.outbuf[2] = last.inbuf[2]
       ELSE FALSE

(***************************************************************************)
(* C19: in the layer macro's mode 'e' (every selected channel) and mode    *)
(* 'b' (the selected channels with index >= max) the volume of a source's  *)
(* Add is 1/sqrt(n), n being the number of selected channels the macro     *)
(* adds into the same lane, for every mask, those that select fewer than   *)
(* max channels included.                                                  *)
(***************************************************************************)
C19_PowerVolume ==
    Stored("mixing_macro_layer")
        => LET max  == last.args[1]
               mode == last.args[3]
               Adds == {k \in 1..data.mixing_count :
                           data.mixing_chain[k].command = "MIX_ADD"}
           IN  \A k \in Adds :
                   LET mix == data.mixing_chain[k]
                       n   == Cardinality({j \in Adds :
                                              data.mixing_chain[j].ch_dst = mix.ch_dst})
                   IN  (mode = "e" \/ (mode = "b" /\ mix.ch_src - max >= max))
                           => mix.vol = ToFloat(InvSqrt[n])

(***************************************************************************)
(* C20: every macro call completes: no call is stopped by a division or a  *)
(* remainder by zero, whatever max > 0, mask and mode it is given (a mask  *)
(* that selects fewer than max channels included), and the commands it     *)
(* appends are valid.                                                      *)
(***************************************************************************)
C20_MacrosComplete ==
    /\ data # FAULT
    /\ IsState(data)
           => \A k \in 1..data.mixing_count :
                  ValidAt(data.mixing_chain[k],
                          CountAfter(data.mixing_chain, k - 1, InitialChannels))

(***************************************************************************)
(* C21: the track macro, called with a mask that is not 0 and selects at   *)
(* least one existing channel on a state in the configuration phase (not   *)
(* activated, with room for its commands), appends one Downmix per         *)
(* unselected channel, highest index first, and every one of them is       *)
(* stored; afterwards output_channels is the number of selected existing   *)
(* channels; and every row mixed through a chain the macro built from the  *)
(* native channels holds exactly the selected channels, in their original  *)
(* order.                                                                  *)
(***************************************************************************)
\* the Downmix commands of the unselected channels from ch down to 0
RECURSIVE DownmixesFrom(_, _)
DownmixesFrom(mask, ch) ==
    IF ch < 0 THEN << >>
    ELSE (IF Bit(mask, ch) = 1 THEN << >>
          ELSE <<[ZeroMix("MIX_DOWNMIX") EXCEPT !.ch_dst = ch]>>)
         \o DownmixesFrom(mask, ch - 1)

TrackFits(d, mask) ==
    /\ mask # 0
    /\ CountSelected(mask, d.output_channels) >= 1
    /\ d.mixing_count + d.output_channels <= d.mixing_size

C21_TrackAppendsDownmixes ==
    Open(data)
        => \A mask \in TrackMasks :
               TrackFits(data, mask)
                   => LET d1 == mixing_macro_track(data, mask)
                          n  == data.output_channels
                          k  == CountSelected(mask, n)
                      IN  /\ d1.mixing_count = data.mixing_count + (n - k)
                          /\ d1.mixing_chain
                                 = SubSeq(data.mixing_chain, 1, data.mixing_count)
                                       \o DownmixesFrom(mask, n - 1)
                          /\ d1.output_channels = k
                          /\ d1.mixing_channels = data.mixing_channels

C21_TrackKeepsSelected ==
    (last.op = "mix_vgmstream" /\ IsState(data) /\ ~virtual)
        => \A mask \in TrackMasks :
               LET d0 == mixing_init(vgmstream.channels)
                   n  == vgmstream.channels
                   k  == CountSelected(mask, n)
               IN  (/\ last.ran
                    /\ TrackFits(d0, mask)
                    /\ data.mixing_chain = mixing_macro_track(d0, mask).mixing_chain)
                       => \A s \in 0..(last.sample_count - 1), ch \in 0..(n - 1) :
                              Bit(mask, ch) = 1
                                  => last.outbuf[s * k + RankOf(mask, ch) + 1]
                                         = last.inbuf[s * n + ch + 1]

C21_TrackSelect ==
    C21_TrackAppendsDownmixes /\ C21_TrackKeepsSelected

\* three channels, the middle one removed, two rows mixed
C21_Witness ==
    /\ last.op = "mix_vgmstream"
    /\ IsState(data)
    /\ IF last.op = "mix_vgmstream" /\ IsState(data)
       THEN /\ last.ran
            /\ last.sample_count = 2
            /\ vgmstream.channels = 3
            /\ data.mixing_chain = mixing_macro_track(mixing_init(3), 5).mixing_chain
            /\ data.output_channels = 2
            /\ last.outbuf[2] = last.inbuf[3]
            /\ last.outbuf[3] = last.inbuf[4]
       ELSE FALSE

(***************************************************************************)
(* C22: the cross-track macro on a loop-enabled stream, called with        *)
(* output_channels > max > 0, leaves config_loop_count at the larger of    *)
(* its value before and track_count = (channel count padded up to even)    *)
(* div max, and changes nothing else of the stream; no step ever lowers    *)
(* config_loop_count; on a stream that is not loop-enabled the macro       *)
(* appends nothing and leaves the stream and the state as they were.       *)
(***************************************************************************)
\* the channel count padded up to even
Padded(n) == IF n % 2 = 1 THEN n + 1 ELSE n

C22_CrosstrackInEveryState ==
    IsState(data)
        => \A max \in 1..(VGMSTREAM_MAX_CHANNELS + 1) :
               LET r == mixing_macro_crosstrack(data, vgmstream, max)
                   track_count == Padded(data.output_channels) \div max
               IN  /\ (vgmstream.loop_flag /\ data.output_channels > max)
                          => r.vs = [vgmstream EXCEPT
                                        !.config_loop_count = Max(@, track_count)]
                   /\ ~vgmstream.loop_flag
                          => (r.vs = vgmstream /\ r.data = data)

C22_LoopCountNeverLowered ==
    vgmstream'.config_loop_count >= vgmstream.config_loop_count

C22_CrosstrackStep ==
    StoredNext("mixing_macro_crosstrack")
        => /\ vgmstream.loop_flag
           /\ vgmstream'.config_loop_count
                  = Max(vgmstream.config_loop_count,
                        Padded(data.output_channels) \div last'.args[1])

C22_LoopCountRaised ==
    /\ []C22_CrosstrackInEveryState
    /\ [][C22_LoopCountNeverLowered /\ C22_CrosstrackStep]_vars

\* three channels padded to four, two tracks: the count was raised to 2
C22_Witness ==
    /\ Stored("mixing_macro_crosstrack")
    /\ IF Stored("mixing_macro_crosstrack")
       THEN /\ vgmstream.channels = 3
            /\ last.args[1] = 2
            /\ vgmstream.config_loop_count = 2
       ELSE FALSE

(***************************************************************************)
(* C23: after the cross-track macro or the cross-layer macro (any mode),   *)
(* called on a loop-enabled stream with output_channels > max > 0 on a     *)
(* state that is not activated, has room for the commands and has headroom *)
(* for the padding channel, output_channels = max, the last command is     *)
(* Killmix(max), and before it the macro appended exactly one Add with     *)
(* volume 1.0 from every channel ch of max..padded-1, into lane            *)
(* (ch - max) mod max.                                                     *)
(***************************************************************************)
CrossFits(d, vs, max) ==
    /\ vs.loop_flag
    /\ max > 0
    /\ d.output_channels > max
    /\ Padded(d.output_channels) <= VGMSTREAM_MAX_CHANNELS
    /\ d.mixing_count + (Padded(d.output_channels) + 1) * (Padded(d.output_channels) + 1)
           <= d.mixing_size

\* d1 is d0 with commands appended that end in the sum of the tracks and
\* the Killmix
SumsAndTruncates(d0, d1, max) ==
    LET padded == Padded(d0.output_channels)
        New    == (d0.mixing_count + 1)..(d1.mixing_count - 1)
    IN  /\ d1.output_channels = max
        /\ d1.mixing_count > d0.mixing_count
        /\ d1.mixing_chain[d1.mixing_count] = [ZeroMix("MIX_KILLMIX") EXCEPT !.ch_dst = max]
        /\ \A ch \in max..(padded - 1) :
               Cardinality({k \in New :
                               /\ d1.mixing_chain[k].command = "MIX_ADD"
                               /\ d1.mixing_chain[k].ch_src = ch}) = 1
        /\ \A k \in New :
               d1.mixing_chain[k].command = "MIX_ADD"
                   => /\ d1.mixing_chain[k].ch_src \in max..(padded - 1)
                      /\ d1.mixing_chain[k].ch_dst = (d1.mixing_chain[k].ch_src - max) % max
                      /\ d1.mixing_chain[k].vol = VolOne

C23_CrossSumsTracks ==
    Open(data)
        => \A max \in 1..VGMSTREAM_MAX_CHANNELS :
               CrossFits(data, vgmstream, max)
                   => /\ SumsAndTruncates(
                             data, mixing_macro_crosstrack(data, vgmstream, max).data, max)
                      /\ \A mode \in {"b", "e", "v"} :
                             SumsAndTruncates(
                                 data,
                                 mixing_macro_crosslayer(data, vgmstream, max, mode).data,
                                 max)

\* three channels padded to four and summed into one lane
C23_Witness ==
    /\ Stored("mixing_macro_crosslayer")
    /\ IF Stored("mixing_macro_crosslayer")
       THEN /\ vgmstream.channels = 3
            /\ last.args[1] = 1
            /\ data.output_channels = 1
            /\ data.mixing_channels = 4
            /\ Cardinality({k \in 1..data.mixing_count :
                                data.mixing_chain[k].command = "MIX_ADD"}) = 3
       ELSE FALSE

(***************************************************************************)
(* C24: the cross-track macro (called as in C23) appends, for every track  *)
(* boundary t of 1..track_count-1 and every channel c of a track, exactly  *)
(* one fade-in 0.0 -> 1.0 on channel t*max + c and exactly one fade-out    *)
(* 1.0 -> 0.0 on channel (t-1)*max + c, both with time_start =             *)
(* loop_start + t * (loop_end - loop_start) and time_end = time_start +    *)
(* 15 * sample_rate; it appends no other Fade, so track 0 gets no fade-in  *)
(* and the last track no fade-out.                                         *)
(***************************************************************************)
C24_CrosstrackFadesPaired ==
    Open(data)
        => \A max \in 1..VGMSTREAM_MAX_CHANNELS :
               CrossFits(data, vgmstream, max)
                   => LET d1 == mixing_macro_crosstrack(data, vgmstream, max).data
                          track_count == Padded(data.output_channels) \div max
                          New == (data.mixing_count + 1)..d1.mixing_count
                          NewFades == {k \in New : d1.mixing_chain[k].command = "MIX_FADE"}
                          at(t) == vgmstream.loop_start_sample
                                       + t * (vgmstream.loop_end_sample
                                                  - vgmstream.loop_start_sample)
                          Is(k, ch, v0, v1, t) ==
                              /\ d1.mixing_chain[k].ch_dst = ch
                              /\ d1.mixing_chain[k].vol_start = v0
                              /\ d1.mixing_chain[k].vol_end = v1
                              /\ d1.mixing_chain[k].time_start = at(t)
                              /\ d1.mixing_chain[k].time_end
                                     = at(t) + 15 * vgmstream.sample_rate
                      IN  /\ \A t \in 1..(track_count - 1), c \in 0..(max - 1) :
                                 /\ Cardinality({k \in NewFades :
                                                    Is(k, t * max + c, 0, VolOne, t)}) = 1
                                 /\ Cardinality({k \in NewFades :
                                                    Is(k, (t - 1) * max + c, VolOne, 0, t)}) = 1
                          /\ Cardinality(NewFades) = 2 * (track_count - 1) * max
                          /\ \A k \in NewFades :
                                 /\ d1.mixing_chain[k].ch_dst < max
                                        => d1.mixing_chain[k].vol_start = VolOne
                                 /\ d1.mixing_chain[k].ch_dst >= (track_count - 1) * max
                                        => d1.mixing_chain[k].vol_start = 0

\* four tracks of one channel: the middle tracks fade in and out
C24_Witness ==
    /\ Stored("mixing_macro_crosstrack")
    /\ IF Stored("mixing_macro_crosstrack")
       THEN /\ vgmstream.channels = 3
            /\ last.args[1] = 1
            /\ vgmstream.loop_end_sample = 20
            /\ Cardinality({k \in 1..data.mixing_count :
                                data.mixing_chain[k].command = "MIX_FADE"}) = 6
       ELSE FALSE

(***************************************************************************)
(* C25: when the allocation fails in an activation call (block size above  *)
(* 0) on a state that is not activated, the state is as it was: mixing_on  *)
(* FALSE, the same chain, the same output_channels and mixing_channels;    *)
(* after it a mix call leaves the caller's buffer as it was, and valid     *)
(* constructor calls still store their command.                            *)
(***************************************************************************)
\* the last call was an activation that failed and left the state inactive
SetupFailed ==
    /\ last.op = "mixing_setup"
    /\ IsState(data)
    /\ IF last.op = "mixing_setup" /\ IsState(data)
       THEN ~last.ok /\ ~data.mixing_on
       ELSE FALSE

C25_FailedSetupStep ==
    (/\ last'.op = "mixing_setup"
     /\ IsState(data)
     /\ IF last'.op = "mixing_setup" /\ IsState(data)
        THEN ~last'.ok /\ ~data.mixing_on
        ELSE FALSE)
        => data' = data

C25_AfterFailedSetup ==
    SetupFailed
        => /\ \A outbuf \in RowBuffers(MaxSamples * InputChannels) :
                  LET r == mix_vgmstream(data, vgmstream, outbuf, MaxSamples)
                  IN  ~r.ran /\ r.outbufs = {outbuf}
           /\ Open(data)
                  => /\ mixing_push_volume(data, -1, DblHalf).mixing_count
                            = data.mixing_count + 1
                     /\ mixing_push_swap(data, 0, data.output_channels).mixing_count
                            = data.mixing_count
                     /\ data.output_channels < VGMSTREAM_MAX_CHANNELS
                            => mixing_push_upmix(data, 0).mixing_count
                                   = data.mixing_count + 1

C25_InactiveMixStep ==
    (/\ last'.op = "mix_vgmstream"
     /\ IsState(data)
     /\ IF IsState(data) THEN ~data.mixing_on ELSE FALSE)
        => /\ ~last'.ran
           /\ last'.outbuf = last'.inbuf

C25_AllocationFailure ==
    /\ []C25_AfterFailedSetup
    /\ [][C25_FailedSetupStep /\ C25_InactiveMixStep]_vars

\* the activation of a chain of two commands has just failed
C25_Witness ==
    /\ SetupFailed
    /\ IF SetupFailed THEN data.mixing_count = 2 /\ data.mixbuf = << >> ELSE FALSE

(***************************************************************************)
(* C26: the query call returns output_channels as the output width and     *)
(* the larger of the stream's native channel count and output_channels as  *)
(* the input width, and changes nothing; so the sample_count *             *)
(* output_channels samples the final pass of a mix call writes fit in a    *)
(* buffer of sample_count * input width samples.                           *)
(***************************************************************************)
C26_InfoValues ==
    (last.op = "mixing_info" /\ IsState(data))
        => /\ last.out.set
           /\ last.out.output_channels = data.output_channels
           /\ last.out.input_channels = Max(vgmstream.channels, data.output_channels)

C26_FinalPassFits ==
    (last.op = "mix_vgmstream" /\ IsState(data))
        => LET info == mixing_info(data, vgmstream)
           IN  /\ Len(last.inbuf) = last.sample_count * info.input_channels
               /\ last.ran
                      => last.sample_count * info.output_channels <= Len(last.inbuf)

C26_InfoStep ==
    last'.op = "mixing_info"
        => /\ last'.out = mixing_info(data, vgmstream)
           /\ UNCHANGED <<vgmstream, data, virtual>>

C26_QueryCall ==
    /\ [](C26_InfoValues /\ C26_FinalPassFits)
    /\ [][C26_InfoStep]_vars

\* a chain that widened the stereo stream has just been queried
C26_Witness ==
    /\ last.op = "mixing_info"
    /\ IsState(data)
    /\ IF last.op = "mixing_info" /\ IsState(data)
       THEN /\ data.output_channels = 3
            /\ last.out.input_channels = 3
            /\ vgmstream.channels = 2
       ELSE FALSE

(***************************************************************************)
(* The trace of one row: steps[m] is the row before command m of the       *)
(* chain and steps[m + 1] the row after it.                                *)
(***************************************************************************)
RowTrace ==
    /\ last.op = "mix_row"
    /\ IsState(data)

\* the chain the last block went through, for a block that was mixed
BlockChain ==
    IF last.op = "mix_vgmstream" /\ IsState(data)
    THEN IF last.ran THEN SubSeq(data.mixing_chain, 1, data.mixing_count) ELSE << >>
    ELSE << >>

\* lanes 0..n-1 of a row
Lanes(st) == [ch \in 0..(st.n - 1) |-> st.buf[st.off + ch + 1]]

(***************************************************************************)
(* C27: a Swap command exchanges the values of its two lanes and leaves    *)
(* every other lane and the channel count as they were; two equal Swaps in *)
(* a row restore the row; the chain [Swap(0,1)] turns the stereo sample    *)
(* [100, 200] into [200, 100].                                             *)
(***************************************************************************)
C27_SwapExchanges ==
    RowTrace
        => \A m \in 1..data.mixing_count :
               data.mixing_chain[m].command = "MIX_SWAP"
                   => LET mix == data.mixing_chain[m]
                          b   == last.steps[m]
                          a   == last.steps[m + 1]
                          x   == b.off + mix.ch_dst + 1
                          y   == b.off + mix.ch_src + 1
                      IN  /\ a.n = b.n
                          /\ a.buf[x] = b.buf[y]
                          /\ a.buf[y] = b.buf[x]
                          /\ \A i \in 1..Len(b.buf) :
                                 i \notin {x, y} => a.buf[i] = b.buf[i]

C27_SwapTwice ==
    RowTrace
        => \A m \in 1..(data.mixing_count - 1) :
               (/\ data.mixing_chain[m].command = "MIX_SWAP"
                /\ data.mixing_chain[m + 1].command = "MIX_SWAP"
                /\ {data.mixing_chain[m].ch_dst, data.mixing_chain[m].ch_src}
                       = {data.mixing_chain[m + 1].ch_dst, data.mixing_chain[m + 1].ch_src})
                   => /\ last.steps[m + 2].buf = last.steps[m].buf
                      /\ last.steps[m + 2].n = last.steps[m].n

C27_SwapExample ==
    (/\ Len(BlockChain) = 1
     /\ IF Len(BlockChain) = 1
        THEN /\ BlockChain[1].command = "MIX_SWAP"
             /\ BlockChain[1].ch_dst = 0
             /\ BlockChain[1].ch_src = 1
             /\ last.inbuf = <<100, 200>>
        ELSE FALSE)
        => last.outbuf = <<200, 100>>

C27_Swap ==
    /\ C27_SwapExchanges
    /\ C27_SwapTwice
    /\ C27_SwapExample

\* Swap(0,1) twice on a row with two different samples
C27_Witness ==
    /\ RowTrace
    /\ IF RowTrace
       THEN /\ data.mixing_count = 2
            /\ data.mixing_chain[1].command = "MIX_SWAP"
            /\ data.mixing_chain[2].command = "MIX_SWAP"
            /\ data.mixing_chain[1].ch_dst = 0
            /\ data.mixing_chain[2].ch_dst = 0
            /\ last.inbuf = <<100, 200>>
            /\ Lanes(last.steps[2]) = (0 :> 200 * VolOne @@ 1 :> 100 * VolOne)
            /\ Lanes(last.steps[3]) = (0 :> 100 * VolOne @@ 1 :> 200 * VolOne)
       ELSE FALSE

(***************************************************************************)
(* C28: on a state that is not activated and has two free slots, with      *)
(* output_channels below the ceiling, Upmix(k) then Downmix(k) are both    *)
(* stored for every k in 0..output_channels and output_channels ends as it *)
(* was; when the pair runs, the channel count and the lanes below it are   *)
(* after the pair what they were before it.                                *)
(***************************************************************************)
C28_PairAccepted ==
    (/\ Open(data)
     /\ IF Open(data)
        THEN /\ data.mixing_count + 2 <= data.mixing_size
             /\ data.output_channels + 1 <= VGMSTREAM_MAX_CHANNELS
        ELSE FALSE)
        => \A k \in 0..data.output_channels :
               LET d1 == mixing_push_upmix(data, k)
                   d2 == mixing_push_downmix(d1, k)
               IN  /\ d1.mixing_count = data.mixing_count + 1
                   /\ d1.output_channels = data.output_channels + 1
                   /\ d2.mixing_count = data.mixing_count + 2
                   /\ d2.output_channels = data.output_channels
                   /\ d2.mixing_chain[d2.mixing_count - 1].command = "MIX_UPMIX"
                   /\ d2.mixing_chain[d2.mixing_count - 1].ch_dst = k
                   /\ d2.mixing_chain[d2.mixing_count].command = "MIX_DOWNMIX"
                   /\ d2.mixing_chain[d2.mixing_count].ch_dst = k

C28_PairRestoresRow ==
    RowTrace
        => \A m \in 1..(data.mixing_count - 1) :
               (/\ data.mixing_chain[m].command = "MIX_UPMIX"
                /\ data.mixing_chain[m + 1].command = "MIX_DOWNMIX"
                /\ data.mixing_chain[m].ch_dst = data.mixing_chain[m + 1].ch_dst)
                   => /\ last.steps[m + 1].n = last.steps[m].n + 1
                      /\ last.steps[m + 2].n = last.steps[m].n
                      /\ Lanes(last.steps[m + 2]) = Lanes(last.steps[m])

\* the pair applied to every row a chain leaves behind that has a lane to
\* spare in the working buffer
C28_PairOnAnyRow ==
    RowTrace
        => \A m \in 1..Len(last.steps) :
               LET st == last.steps[m]
               IN  (st.n >= 1 /\ st.off + st.n < Len(st.buf))
                       => \A k \in 0..st.n :
                              LET up   == MixUpmix(st, [ZeroMix("MIX_UPMIX") EXCEPT !.ch_dst = k])
                                  down == MixDownmix(up, [ZeroMix("MIX_DOWNMIX") EXCEPT !.ch_dst = k])
                              IN  /\ up.n = st.n + 1
                                  /\ up.buf[up.off + k + 1] = 0
                                  /\ down.n = st.n
                                  /\ Lanes(down) = Lanes(st)

C28_UpmixDownmix ==
    /\ C28_PairAccepted
    /\ C28_PairRestoresRow
    /\ C28_PairOnAnyRow

\* Upmix(1) then Downmix(1) has run on a stereo row: a lane was inserted
\* between the two and taken out again
C28_Witness ==
    /\ RowTrace
    /\ IF RowTrace
       THEN /\ data.mixing_count = 2
            /\ data.mixing_chain[1].command = "MIX_UPMIX"
            /\ data.mixing_chain[2].command = "MIX_DOWNMIX"
            /\ data.mixing_chain[1].ch_dst = 1
            /\ data.mixing_chain[2].ch_dst = 1
            /\ data.output_channels = 2
            /\ last.steps[2].n = 3
            /\ Lanes(last.steps[3]) = (0 :> 100 * VolOne @@ 1 :> 200 * VolOne)
       ELSE FALSE

(***************************************************************************)
(* C29: a Volume command with the all-channels selector multiplies the     *)
(* lanes below the channel count of its chain position by the volume and   *)
(* leaves every lane at or above it as it was; with a channel index it     *)
(* multiplies that lane alone; the chain [Volume(all, 0.5)] turns the      *)
(* stereo sample [100, -200] into [50, -100].                              *)
(***************************************************************************)
\* v times vol: the exact product for the volumes up to 2.0, and a value
\* of the same sign and no smaller magnitude for the larger ones
Multiplied(a, v, vol) ==
    IF vol <= 2 * VolOne
    THEN a = MulFx(v, vol)
    ELSE /\ (a > 0) = (v > 0)
         /\ (a < 0) = (v < 0)
         /\ Abs(a) >= Abs(v)

C29_VolumeLanes ==
    RowTrace
        => \A m \in 1..data.mixing_count :
               data.mixing_chain[m].command = "MIX_VOLUME"
                   => LET mix == data.mixing_chain[m]
                          b   == last.steps[m]
                          a   == last.steps[m + 1]
                      IN  /\ a.n = b.n
                          /\ \A i \in 1..Len(b.buf) :
                                 LET ch == i - 1 - b.off
                                 IN  IF (mix.ch_dst < 0 /\ ch >= 0 /\ ch < b.n)
                                           \/ ch = mix.ch_dst
                                     THEN Multiplied(a.buf[i], b.buf[i], mix.vol)
                                     ELSE a.buf[i] = b.buf[i]

C29_VolumeExample ==
    (/\ Len(BlockChain) = 1
     /\ IF Len(BlockChain) = 1
        THEN /\ BlockChain[1].command = "MIX_VOLUME"
             /\ BlockChain[1].ch_dst < 0
             /\ BlockChain[1].vol = Half
             /\ last.inbuf = <<100, -200>>
        ELSE FALSE)
        => last.outbuf = <<50, -100>>

C29_Volume ==
    /\ C29_VolumeLanes
    /\ C29_VolumeExample

\* Volume(all, 0.5) has run on a row narrowed to one channel: lane 0 is
\* halved and the lane above the count keeps the sample left in it
C29_Witness ==
    /\ RowTrace
    /\ IF RowTrace
       THEN /\ data.mixing_count = 2
            /\ data.mixing_chain[1].command = "MIX_DOWNMIX"
            /\ data.mixing_chain[1].ch_dst = 0
            /\ data.mixing_chain[2].command = "MIX_VOLUME"
            /\ data.mixing_chain[2].ch_dst < 0
            /\ data.mixing_chain[2].vol = Half
            /\ last.inbuf = <<100, 200>>
            /\ last.steps[2].n = 1
            /\ last.steps[3].buf[1] = 100 * VolOne
            /\ last.steps[3].buf[2] = 200 * VolOne
       ELSE FALSE

(***************************************************************************)
(* C30: the final pass of a mix call that ran rewrites the first           *)
(* sample_count * output_channels entries of the caller's buffer and no    *)
(* other; each of them is the working value at the same index cut toward   *)
(* zero and then clamped to -32768..32767, so none lies outside that       *)
(* range.                                                                  *)
(***************************************************************************)
\* a working value cut toward zero, then clamped to 16 bits
TruncatedClamped(v) ==
    IF v \in {BIG_POS, HUGE_POS} THEN 32767
    ELSE IF v \in {BIG_NEG, HUGE_NEG} THEN -32768
    ELSE LET t == IF v >= 0 THEN v \div VolOne ELSE -((-v) \div VolOne)
         IN  IF t > 32767 THEN 32767 ELSE IF t < -32768 THEN -32768 ELSE t

\* the last call was a mix whose rows ran
BlockMixed ==
    /\ last.op = "mix_vgmstream"
    /\ IsState(data)
    /\ IF last.op = "mix_vgmstream" THEN last.ran ELSE FALSE

\* entry i of the caller's buffer is the working value i, converted, for
\* the working values of V; a working value never written is left out
FinalPassOn(V) ==
    BlockMixed
        => LET total == last.sample_count * data.output_channels
           IN  \A i \in 1..Len(last.outbuf) :
                   IF i > total THEN last.outbuf[i] = last.inbuf[i]
                   ELSE (last.mixbuf[i] # GARBAGE /\ last.mixbuf[i] \in V)
                            => /\ last.outbuf[i] = TruncatedClamped(last.mixbuf[i])
                               /\ last.outbuf[i] >= -32768
                               /\ last.outbuf[i] <= 32767

C30_FinalPass == FinalPassOn(Int)

\* the same for the working values inside the range of int32_t
C30_FinalPassInRange == FinalPassOn(Int \ {HUGE_POS, HUGE_NEG})

\* the 16-bit range is kept whatever the working value
C30_SixteenBits ==
    BlockMixed
        => \A i \in 1..(last.sample_count * data.output_channels) :
               last.mixbuf[i] # GARBAGE
                   => last.outbuf[i] >= -32768 /\ last.outbuf[i] <= 32767

\* a full-scale sample scaled beyond the range of int32_t has gone through
\* the final pass
C30_Witness ==
    /\ BlockMixed
    /\ IF BlockMixed
       THEN /\ last.inbuf[1] = 32767
            /\ last.mixbuf[1] = HUGE_POS
            /\ last.outbuf[1] = -32768
       ELSE FALSE

(***************************************************************************)
(* C31: when a Fade is stored after a Fade of the same selector, and the   *)
(* earlier post or the new pre is open, and the two neither overlap nor    *)
(* are out of order (earlier end <= new start; earlier post, if closed,    *)
(* <= new start; new pre, if closed, >= earlier end), then afterwards the  *)
(* earlier Fade's time_post and the new Fade's time_pre are both closed,   *)
(* equal, and between the earlier end and the new start.                   *)
(***************************************************************************)
\* the stitching of the Fade just pushed applies to Fade prev before it
StitchApplies(prev, a) ==
    /\ prev.time_post < 0 \/ a.time_pre < 0
    /\ prev.time_end <= a.time_start
    /\ prev.time_post >= 0 => prev.time_post <= a.time_start
    /\ a.time_pre >= 0 => a.time_pre >= prev.time_end

C31_StitchStep ==
    FadeStoredNext
        => LET a == last'.args.fade
               p == get_last_fade(data, last'.args.ch_dst)
           IN  IF p = 0 THEN TRUE
               ELSE LET prev == data.mixing_chain[p]
                        post == data'.mixing_chain[p].time_post
                        pre  == data'.mixing_chain[data'.mixing_count].time_pre
                    IN  StitchApplies(prev, a)
                            => /\ post >= 0
                               /\ pre >= 0
                               /\ post = pre
                               /\ prev.time_end <= post
                               /\ post <= a.time_start

C31_StitchedHandOff == [][C31_StitchStep]_vars

\* a Fade pushed with an open pre, starting after the end of the one
\* before it, has been stored with the hand-off point of the two
C31_Witness ==
    /\ FadeStored
    /\ IF FadeStored
       THEN /\ data.mixing_count = 2
            /\ data.mixing_chain[1].ch_dst = data.mixing_chain[2].ch_dst
            /\ last.args.fade.time_pre < 0
            /\ data.mixing_chain[1].time_end < data.mixing_chain[2].time_start
            /\ data.mixing_chain[1].time_post = data.mixing_chain[1].time_end
            /\ data.mixing_chain[2].time_pre = data.mixing_chain[1].time_post
       ELSE FALSE

(***************************************************************************)
(* C32: when a Fade is stored after a Fade of the same selector and either *)
(* the earlier post and the new pre are both closed, or the two overlap or *)
(* are out of order (earlier end > new start, or earlier post closed and   *)
(* > new start, or new pre closed and < earlier end), the earlier Fade is  *)
(* left as it was and the new Fade is stored with the four times given.    *)
(***************************************************************************)
StitchSkipped(prev, a) ==
    \/ prev.time_post >= 0 /\ a.time_pre >= 0
    \/ prev.time_end > a.time_start
    \/ prev.time_post >= 0 /\ prev.time_post > a.time_start
    \/ a.time_pre >= 0 /\ a.time_pre < prev.time_end

C32_AsIsStep ==
    FadeStoredNext
        => LET a == last'.args.fade
               p == get_last_fade(data, last'.args.ch_dst)
           IN  IF p = 0 THEN TRUE
               ELSE LET prev == data.mixing_chain[p]
                        mix  == data'.mixing_chain[data'.mixing_count]
                    IN  StitchSkipped(prev, a)
                            => /\ data'.mixing_chain[p] = prev
                               /\ mix.time_pre = a.time_pre
                               /\ mix.time_start = a.time_start
                               /\ mix.time_end = a.time_end
                               /\ mix.time_post = a.time_post

C32_UnstitchableAsIs == [][C32_AsIsStep]_vars

\* a Fade with an open pre that starts before the end of the open-ended
\* one before it has been stored, both still open
C32_Witness ==
    /\ FadeStored
    /\ IF FadeStored
       THEN /\ data.mixing_count = 2
            /\ data.mixing_chain[1].ch_dst = data.mixing_chain[2].ch_dst
            /\ data.mixing_chain[1].time_end > data.mixing_chain[2].time_start
            /\ data.mixing_chain[1].time_post < 0
            /\ data.mixing_chain[2].time_pre < 0
       ELSE FALSE

(***************************************************************************)
(* C33: on an activated chain that holds a single Fade from volume 1.0     *)
(* down, pushed with an open pre and a start above 0, a mix call whose     *)
(* samples all lie before the start of the Fade is skipped.  The stored    *)
(* time_pre of such a Fade is the open one it was pushed with, or its      *)
(* time_start if the push closed it.                                       *)
(***************************************************************************)
C33_EarlyBlockSkipped ==
    Mixed
        => LET from == get_current_pos([vgmstream EXCEPT
                                           !.current_sample = last.current_sample,
                                           !.loop_count = last.loop_count])
               to   == from + last.sample_count
               mix  == data.mixing_chain[1]
           IN  (/\ data.mixing_count = 1
                /\ mix.command = "MIX_FADE"
                /\ mix.vol_start = VolOne
                /\ mix.vol_end < VolOne
                /\ mix.time_pre < 0 \/ mix.time_pre = mix.time_start
                /\ mix.time_start > 0
                /\ to <= mix.time_start)
                   => ~last.ran

(***************************************************************************)
(* C34: in a mix call of no more samples than the block size given at      *)
(* activation, every lane read or written in a row has an index below      *)
(* mixing_channels, and every position accessed (the start of the row plus *)
(* the lane) lies inside the working buffer, which holds block size times  *)
(* mixing_channels values.                                                 *)
(***************************************************************************)
\* the sum of the first k entries of a sequence of widths
RECURSIVE SumWidths(_, _)
SumWidths(widths, k) ==
    IF k = 0 THEN 0 ELSE widths[k] + SumWidths(widths, k - 1)

\* the last call was a mix that processed its rows
RowsRan ==
    /\ last.op = "mix_vgmstream"
    /\ IsState(data)
    /\ IF last.op = "mix_vgmstream" THEN last.ran ELSE FALSE

C34_LanesInsideBuffer ==
    RowsRan
        => /\ last.max_lane < data.mixing_channels
           /\ Len(data.mixbuf) % data.mixing_channels = 0
           /\ last.sample_count <= Len(data.mixbuf) \div data.mixing_channels
           /\ ~last.oob
           /\ \A row \in 1..last.sample_count :
                  /\ ~virtual => SumWidths(last.widths, row - 1)
                                     = (row - 1) * data.output_channels
                  /\ SumWidths(last.widths, row - 1) + last.max_lane < Len(data.mixbuf)

\* two rows have gone through a chain that widens them to mixing_channels
C34_Witness ==
    /\ RowsRan
    /\ IF RowsRan
       THEN /\ last.sample_count = 2
            /\ data.mixing_channels > vgmstream.channels
            /\ last.max_lane = data.mixing_channels - 1
            /\ Len(data.mixbuf) = 2 * data.mixing_channels
       ELSE FALSE

(***************************************************************************)
(* C35: the commands are applied to each row in the order they were        *)
(* appended, and the order matters: the stereo row [a, b] comes out of     *)
(* [Add(0,1,1.0), Upmix(0)] as [0, a+b, b] and out of                      *)
(* [Upmix(0), Add(0,1,1.0)] as [a, a, b]; and once Downmix(0) is stored on *)
(* a state of two channels, Swap(0,1) is rejected.                         *)
(***************************************************************************)
\* the last block of one sample went through the chain <<c1, c2>>, given
\* as <<command, ch_dst, ch_src>>
BlockThrough(c1, c2) ==
    /\ Len(BlockChain) = 2
    /\ IF Len(BlockChain) = 2
       THEN /\ \A m \in 1..2 :
                   LET c == IF m = 1 THEN c1 ELSE c2
                   IN  /\ BlockChain[m].command = c[1]
                       /\ BlockChain[m].ch_dst = c[2]
                       /\ BlockChain[m].ch_src = c[3]
                       /\ c[1] = "MIX_ADD" => BlockChain[m].vol = VolOne
            /\ last.sample_count = 1
            /\ vgmstream.channels = 2
       ELSE FALSE

\* a + b as a 16-bit sample
Sum16(a, b) ==
    IF a + b > 32767 THEN 32767 ELSE IF a + b < -32768 THEN -32768 ELSE a + b

C35_AddThenUpmix ==
    BlockThrough(<<"MIX_ADD", 0, 1>>, <<"MIX_UPMIX", 0, 0>>)
        => last.outbuf = <<0, Sum16(last.inbuf[1], last.inbuf[2]), last.inbuf[2]>>

C35_UpmixThenAdd ==
    BlockThrough(<<"MIX_UPMIX", 0, 0>>, <<"MIX_ADD", 0, 1>>)
        => last.outbuf = <<last.inbuf[1], last.inbuf[1], last.inbuf[2]>>

\* every row of the trace is the row before it after the command between
C35_InAppendOrder ==
    RowTrace
        => /\ Len(last.steps) = data.mixing_count + 1
           /\ Lanes(last.steps[1]) = [ch \in 0..(vgmstream.channels - 1) |->
                                         last.inbuf[ch + 1] * VolOne]
           /\ \A m \in 1..data.mixing_count :
                  last.steps[m + 1].n = CountStep(data.mixing_chain[m], last.steps[m].n)

C35_SwapAfterDownmix ==
    /\ (/\ Open(data)
        /\ IF Open(data) THEN data.output_channels = 2 ELSE FALSE)
           => LET d1 == mixing_push_downmix(data, 0)
              IN  /\ d1.mixing_count = data.mixing_count + 1
                  /\ d1.output_channels = 1
                  /\ mixing_push_swap(d1, 0, 1) = d1
                  /\ mixing_push_swap(d1, 1, 0) = d1
    /\ IsState(data)
           => \A m \in 2..data.mixing_count :
                  (/\ data.mixing_chain[m].command = "MIX_SWAP"
                   /\ data.mixing_chain[m - 1].command = "MIX_DOWNMIX")
                      => CountAfter(data.mixing_chain, m - 1, vgmstream.channels) >= 2

C35_OrderMatters ==
    /\ C35_AddThenUpmix
    /\ C35_UpmixThenAdd
    /\ C35_InAppendOrder
    /\ C35_SwapAfterDownmix

\* [100, 200] has gone through [Add(0,1,1.0), Upmix(0)]
C35_Witness ==
    /\ BlockThrough(<<"MIX_ADD", 0, 1>>, <<"MIX_UPMIX", 0, 0>>)
    /\ last.inbuf = <<100, 200, 300>>
    /\ last.outbuf = <<0, 300, 200>>

(***************************************************************************)
(* SpecPlay: an activated stream with one fade-out plays.  The decoder     *)
(* advances current_sample block by block, goes back to loop_start_sample  *)
(* when it reaches loop_end_sample, counting the loop, and hands each      *)
(* position to mix_vgmstream.                                              *)
(***************************************************************************)
\* completed loops the model follows
MaxLoops == 2

\* samples of a stream that does not loop
PlayLength == 4

PlayStreams ==
    {vs \in [channels          : {1},
             loop_flag         : BOOLEAN,
             loop_start_sample : 0..1,
             loop_end_sample   : 2..3,
             sample_rate       : {1},
             config_loop_count : {1},
             current_sample    : {0},
             loop_count        : {0},
             channel_layout    : {1}] : TRUE}

InitPlay ==
    /\ vgmstream \in PlayStreams
    /\ data = mixing_setup(mixing_push_fade(mixing_init(vgmstream.channels), -1,
                                            DblOne, 0, "T", -1, 2, 6, -1),
                           vgmstream, MaxSamples, TRUE).data
    /\ virtual = FALSE
    /\ last = [op |-> "mixing_setup", ok |-> TRUE]

\* where the decoder stops: the loop end while looping, else the stream's end
PlayEnd == IF vgmstream.loop_flag THEN vgmstream.loop_end_sample ELSE PlayLength

\* the decoder produces a block and moves on by its length
Decode ==
    /\ \E n \in 1..MaxSamples :
           /\ vgmstream.current_sample + n <= PlayEnd
           /\ vgmstream' = [vgmstream EXCEPT !.current_sample = @ + n]
           /\ last' = [op |-> "decode", sample_count |-> n]
    /\ UNCHANGED <<data, virtual>>

\* the decoder is at the loop end: back to the loop start, one more loop done
LoopBack ==
    /\ vgmstream.loop_flag
    /\ vgmstream.current_sample = vgmstream.loop_end_sample
    /\ vgmstream.loop_count < MaxLoops
    /\ vgmstream' = [vgmstream EXCEPT !.current_sample = vgmstream.loop_start_sample,
                                      !.loop_count = @ + 1]
    /\ last' = [op |-> "loop"]
    /\ UNCHANGED <<data, virtual>>

\* mix_vgmstream on a block at the decoder's position
PlayMix ==
    /\ \E sample_count \in 1..MaxSamples :
           LET outbuf == DecodedBuffer(sample_count * InputChannels)
           IN  \E r \in {mix_vgmstream(data, vgmstream, outbuf, sample_count)} :
                   \E written \in r.outbufs :
                       last' = [op |-> "mix_vgmstream", sample_count |-> sample_count,
                                current_sample |-> vgmstream.current_sample,
                                loop_count |-> vgmstream.loop_count,
                                current_pos |-> get_current_pos(vgmstream),
                                inbuf |-> outbuf, outbuf |-> written, ran |-> r.ran,
                                widths |-> r.widths, oob |-> r.oob, back |-> r.back,
                                max_lane |-> r.max_lane]
    /\ UNCHANGED <<vgmstream, data, virtual>>

NextPlay ==
    \/ Decode
    \/ LoopBack
    \/ PlayMix

SpecPlay == InitPlay /\ [][NextPlay]_vars

(***************************************************************************)
(* C36: while the stream plays, current_sample going up and going back     *)
(* from loop_end_sample to loop_start_sample with loop_count one higher,   *)
(* the position get_current_pos computes never goes down; with k >= 1      *)
(* loops done and current_sample = loop_start_sample it is                 *)
(* loop_start_sample + k * (loop_end_sample - loop_start_sample).          *)
(***************************************************************************)
C36_AtLoopStart ==
    (/\ vgmstream.loop_flag
     /\ vgmstream.loop_count >= 1
     /\ vgmstream.current_sample = vgmstream.loop_start_sample)
        => /\ get_current_pos(vgmstream)
                = vgmstream.loop_start_sample
                  + vgmstream.loop_count
                    * (vgmstream.loop_end_sample - vgmstream.loop_start_sample)
           /\ last.op = "mix_vgmstream" => last.current_pos = get_current_pos(vgmstream)

C36_PlayStep == get_current_pos(vgmstream') >= get_current_pos(vgmstream)

C36_PositionNeverDecreases == []C36_AtLoopStart /\ [][C36_PlayStep]_vars

(***************************************************************************)
(* C37: when is_active makes mix_vgmstream return early, no Fade of the    *)
(* chain applies at any position of the block and output_channels is the   *)
(* stream's channel count, so the untouched buffer is what the loop over   *)
(* the samples would have left.  The stream's channel count is the count   *)
(* the state started with (no virtual channel).                            *)
(***************************************************************************)
\* the last call passed the tests of line 240 and returned at line 246
SkippedByActivity == Mixed /\ ~last.ran /\ ~virtual

\* the stream as the last call saw it
LastStream ==
    [vgmstream EXCEPT !.current_sample = last.current_sample,
                      !.loop_count = last.loop_count]

C37_SkipChangesNothing ==
    SkippedByActivity
        => LET from == get_current_pos(LastStream)
           IN  /\ \A m \in 1..data.mixing_count :
                      /\ data.mixing_chain[m].command = "MIX_FADE"
                      /\ \A s \in 0..(last.sample_count - 1) :
                             ~get_fade_gain(data.mixing_chain[m], from + s).ok
               /\ data.output_channels = vgmstream.channels
               /\ last.outbuf = last.inbuf
               /\ \E full \in {mix_vgmstream_always(data, LastStream, last.inbuf,
                                                     last.sample_count)} :
                      /\ full.outbufs = {last.outbuf}
                      /\ ~full.oob

\* a block of two samples after the end of both Fades of the chain is skipped
C37_Witness ==
    /\ SkippedByActivity
    /\ data.mixing_count = 2
    /\ last.sample_count = 2
    /\ last.current_sample = 2
    /\ \A m \in 1..2 : /\ data.mixing_chain[m].command = "MIX_FADE"
                       /\ data.mixing_chain[m].time_post >= 0
                       /\ data.mixing_chain[m].vol_end # VolOne

(***************************************************************************)
(* C38: get_fade_gain never divides by a duration of zero.  For a stored   *)
(* Fade with time_start = time_end no position takes the branch between    *)
(* start and end: a position inside the window gets vol_start before       *)
(* time_start and vol_end from time_end on, a position outside it gets no  *)
(* gain.                                                                   *)
(***************************************************************************)
GainCalled == last.op = "get_fade_gain"

\* the position is inside [time_pre, time_post), an open side unbounded
InsideWindow(mix, pos) ==
    /\ mix.time_pre < 0 \/ pos >= mix.time_pre
    /\ mix.time_post < 0 \/ pos < mix.time_post

C38_InstantFade ==
    (/\ GainCalled
     /\ IF GainCalled THEN last.mix.time_start = last.mix.time_end ELSE FALSE)
        => LET mix == last.mix
               pos == last.current_subpos
           IN  IF ~InsideWindow(mix, pos) THEN ~last.out.ok
               ELSE IF pos < mix.time_start
               THEN last.out = [ok |-> TRUE, cur_vol |-> mix.vol_start]
               ELSE last.out = [ok |-> TRUE, cur_vol |-> mix.vol_end]

\* whenever the gain comes from the branch between start and end, the
\* duration it divides by is positive
C38_DivisorPositive ==
    GainCalled
        => LET mix == last.mix
               pos == last.current_subpos
           IN  (/\ last.out.ok
                /\ pos >= mix.time_start
                /\ pos < mix.time_end) => mix.time_end - mix.time_start > 0

C38_NoZeroDuration ==
    /\ C38_InstantFade
    /\ C38_DivisorPositive

\* an instant fade-out evaluated at its time_end = time_start
C38_Witness ==
    /\ GainCalled
    /\ last.mix.time_start = last.mix.time_end
    /\ last.current_subpos = last.mix.time_end
    /\ last.mix.time_end > 0
    /\ last.mix.vol_start = VolOne
    /\ last.out = [ok |-> TRUE, cur_vol |-> 0]

(***************************************************************************)
(* C39: on a stream without a state (mixing_init's allocation failed)      *)
(* every constructor, every macro, mixing_setup, mixing_info and           *)
(* mix_vgmstream does nothing: no call faults, the buffer handed to        *)
(* mix_vgmstream is left as it was and config_loop_count keeps its value.  *)
(***************************************************************************)
NoState == data = NULL

\* every call, on every argument the model uses, returns the absent state
C39_CallsReturn ==
    NoState
        => /\ \A a \in -1..VGMSTREAM_MAX_CHANNELS, b \in -1..VGMSTREAM_MAX_CHANNELS :
                  /\ mixing_push_swap(data, a, b) = NULL
                  /\ \A volume \in {0, DblHalf, DblOne} :
                         mixing_push_add(data, a, b, volume) = NULL
           /\ \A a \in -1..VGMSTREAM_MAX_CHANNELS :
                  /\ \A volume \in {-1, 0, DblHalf, DblOne, DblOne + 1} :
                         /\ mixing_push_volume(data, a, volume) = NULL
                         /\ mixing_push_limit(data, a, volume) = NULL
                  /\ mixing_push_upmix(data, a) = NULL
                  /\ mixing_push_downmix(data, a) = NULL
                  /\ mixing_push_killmix(data, a) = NULL
                  /\ \A f \in Fades :
                         mixing_push_fade(data, a, f.vol_start, f.vol_end, f.shape,
                                          f.time_pre, f.time_start, f.time_end,
                                          f.time_post) = NULL
                  /\ \A mask \in 0..3 :
                         /\ mixing_macro_volume(data, DblHalf, mask) = NULL
                         /\ mixing_macro_track(data, mask) = NULL
                         /\ \A mode \in {"b", "e", "v"}, traps \in BOOLEAN :
                                mixing_macro_layer(data, a, mask, mode, traps) = NULL
                  /\ mixing_macro_crosstrack(data, vgmstream, a)
                         = [data |-> NULL, vs |-> vgmstream]
                  /\ \A mode \in {"b", "e", "v"} :
                         mixing_macro_crosslayer(data, vgmstream, a, mode)
                             = [data |-> NULL, vs |-> vgmstream]
           /\ \A max_sample_count \in 0..MaxSamples, alloc_ok \in BOOLEAN :
                  mixing_setup(data, vgmstream, max_sample_count, alloc_ok)
                      = [data |-> NULL, vs |-> vgmstream]
           /\ ~mixing_info(data, vgmstream).set
           /\ \A sample_count \in 1..MaxSamples :
                  LET outbuf == DecodedBuffer(sample_count * vgmstream.channels)
                  IN  \E r \in {mix_vgmstream(data, vgmstream, outbuf, sample_count)} :
                          /\ ~r.ran
                          /\ ~r.oob
                          /\ r.outbufs = {outbuf}

\* no call changes the stream, creates a state or faults
C39_CallStep ==
    NoState
        => /\ data' = NULL
           /\ vgmstream' = vgmstream
           /\ last'.op \in {"configure", "mixing_setup", "mixing_info", "mix_vgmstream"}
           /\ last'.op = "mixing_info" => ~last'.out.set
           /\ last'.op = "mix_vgmstream" => /\ ~last'.ran
                                           /\ last'.outbuf = last'.inbuf

C39_NothingWithoutState == []C39_CallsReturn /\ [][C39_CallStep]_vars

\* a block of two samples handed to mix_vgmstream on a looping stream
\* without a state
C39_Witness ==
    /\ NoState
    /\ vgmstream.loop_flag
    /\ last.op = "mix_vgmstream"
    /\ last.sample_count = 2
    /\ last.outbuf = last.inbuf

====
